---------------------------- MODULE Spec2Model ----------------------------
(***************************************************************************)
(* A model of generate_report.py: a single-pass batch script that parses a *)
(* TRX test-run document, groups and orders the outcomes, renders one HTML *)
(* document and writes it to the output path.                              *)
(*                                                                         *)
(* Text is a sequence of pieces.  A piece is either one character that the *)
(* program treats specially ('.', ':', '<', '&', a digit of a number, ...) *)
(* or a run of ordinary characters ("TestIT", "Passed").  Splitting,       *)
(* searching and escaping work on pieces exactly as the code works on      *)
(* characters.                                                             *)
(*                                                                         *)
(* A float is a record [k, cs]: k is "fin", "+inf", "-inf" or "nan" and cs *)
(* is the value in hundredths of a second (the resolution of the ".2f"     *)
(* format the program prints durations with).                              *)
(***************************************************************************)
EXTENDS Integers, Sequences, FiniteSets, TLC

(***************************************************************************)
(* Results of operations that may raise.                                   *)
(***************************************************************************)
Ok(v) == [ok |-> TRUE, v |-> v]
Err == [ok |-> FALSE]

(***************************************************************************)
(* Optional attributes and elements: {} is absent, {v} is present.         *)
(***************************************************************************)
Absent == {}
Some(v) == {v}
TheValue(o) == CHOOSE v \in o : TRUE
\* ElementTree's el.get(key, default)
get(o, default) == IF o = Absent THEN default ELSE TheValue(o)

(***************************************************************************)
(* str.split(sep), str.rfind(c), str.startswith(p)                         *)
(***************************************************************************)
RECURSIVE split(_, _)
split(s, sep) ==
    IF \A i \in 1..Len(s) : s[i] # sep
    THEN <<s>>
    ELSE LET i == CHOOSE k \in 1..Len(s) :
                     s[k] = sep /\ \A j \in 1..(k - 1) : s[j] # sep
         IN  <<SubSeq(s, 1, i - 1)>> \o split(SubSeq(s, i + 1, Len(s)), sep)

\* The index of the last occurrence of c, 0 when there is none (Python: -1,
\* with indices from 0).
rfind(s, c) ==
    IF \A i \in 1..Len(s) : s[i] # c
    THEN 0
    ELSE CHOOSE k \in 1..Len(s) : s[k] = c /\ \A j \in (k + 1)..Len(s) : s[j] # c

startswith(s, p) == Len(s) >= Len(p) /\ SubSeq(s, 1, Len(p)) = p

(***************************************************************************)
(* int(str) and float(str)                                                 *)
(***************************************************************************)
Digits == <<"0", "1", "2", "3", "4", "5", "6", "7", "8", "9">>
IsDigit(c) == \E i \in 1..10 : Digits[i] = c
DigitVal(c) == (CHOOSE i \in 1..10 : Digits[i] = c) - 1
AllDigits(s) == Len(s) > 0 /\ \A i \in 1..Len(s) : IsDigit(s[i])

RECURSIVE DigitsValue(_)
DigitsValue(ds) ==
    IF ds = <<>> THEN 0
    ELSE DigitsValue(SubSeq(ds, 1, Len(ds) - 1)) * 10 + DigitVal(ds[Len(ds)])

Signed(s) == Len(s) > 0 /\ s[1] \in {"+", "-"}
Unsigned(s) == IF Signed(s) THEN Tail(s) ELSE s
Negative(s) == Len(s) > 0 /\ s[1] = "-"

\* int(s): an optional sign and at least one digit; anything else raises
\* ValueError.
int(s) ==
    IF AllDigits(Unsigned(s))
    THEN Ok(IF Negative(s) THEN 0 - DigitsValue(Unsigned(s))
                           ELSE DigitsValue(Unsigned(s)))
    ELSE Err

Fin(cs) == [k |-> "fin", cs |-> cs]
PosInf == [k |-> "+inf", cs |-> 0]
NegInf == [k |-> "-inf", cs |-> 0]
NaN == [k |-> "nan", cs |-> 0]

\* The first two fraction digits, in hundredths.
Hundredths(frac) ==
    (IF Len(frac) >= 1 THEN DigitVal(frac[1]) * 10 ELSE 0)
    + (IF Len(frac) >= 2 THEN DigitVal(frac[2]) ELSE 0)

\* float(s): [sign] digits ['.' digits], [sign] inf, [sign] nan; anything
\* else raises ValueError.
float(s) ==
    LET body == Unsigned(s)
        dot == rfind(body, ".")
        ip == IF dot = 0 THEN body ELSE SubSeq(body, 1, dot - 1)
        fp == IF dot = 0 THEN <<>> ELSE SubSeq(body, dot + 1, Len(body))
        mag == DigitsValue(ip) * 100 + Hundredths(fp)
    IN  IF body = <<"inf">> THEN Ok(IF Negative(s) THEN NegInf ELSE PosInf)
        ELSE IF body = <<"nan">> THEN Ok(NaN)
        ELSE IF /\ (ip = <<>> \/ AllDigits(ip))
                /\ (fp = <<>> \/ AllDigits(fp))
                /\ (ip # <<>> \/ fp # <<>>)
        THEN Ok(Fin(IF Negative(s) THEN 0 - mag ELSE mag))
        ELSE Err

(***************************************************************************)
(* Float arithmetic and comparison (IEEE 754 special values included).     *)
(***************************************************************************)
FAdd(a, b) ==
    IF a.k = "nan" \/ b.k = "nan" THEN NaN
    ELSE IF a.k = "fin" /\ b.k = "fin" THEN Fin(a.cs + b.cs)
    ELSE IF a.k = "fin" THEN b
    ELSE IF b.k = "fin" THEN a
    ELSE IF a.k = b.k THEN a
    ELSE NaN

FLess(a, b) ==
    IF a.k = "nan" \/ b.k = "nan" THEN FALSE
    ELSE IF a.k = "-inf" THEN b.k # "-inf"
    ELSE IF a.k = "+inf" THEN FALSE
    ELSE IF b.k = "+inf" THEN TRUE
    ELSE IF b.k = "-inf" THEN FALSE
    ELSE a.cs < b.cs

FGe(a, b) ==
    IF a.k = "nan" \/ b.k = "nan" THEN FALSE ELSE ~FLess(a, b)

\* x / n for an integer n: the quotient, or the ZeroDivisionError that a
\* division by 0 raises.
FDivInt(a, n) ==
    IF n = 0 THEN Err
    ELSE IF a.k = "fin" THEN Fin(a.cs \div n) ELSE a

(***************************************************************************)
(* parse_duration                                                          *)
(***************************************************************************)
parse_duration(dur_str) ==
    LET parts == split(dur_str, ":")
    IN  IF Len(parts) < 3 THEN Err
        ELSE LET h == int(parts[1])
                 m == int(parts[2])
                 s == float(parts[3])
             IN  IF h.ok /\ m.ok /\ s.ok
                 THEN Ok(FAdd(Fin((h.v * 3600 + m.v * 60) * 100), s.v))
                 ELSE Err


(***************************************************************************)
(* fmt_dur: the formatted duration, as its form and the numbers printed    *)
(* (h and m as integers, s with two decimals).  int() of the NaN that      *)
(* inf // 3600 yields raises ValueError.                                   *)
(***************************************************************************)
\* Mutant of fmt_dur: "seconds > 60" where the code has "seconds >= 60".
fmt_dur_Over60(seconds) ==
    IF FGe(seconds, Fin(3600 * 100))
    THEN IF seconds.k # "fin" THEN Err
         ELSE LET h == seconds.cs \div (3600 * 100)
                  remainder == seconds.cs - h * 3600 * 100
                  m == remainder \div (60 * 100)
                  s == remainder - m * 60 * 100
              IN  Ok([form |-> "h m s", h |-> h, m |-> m, s |-> Fin(s)])
    ELSE IF FLess(Fin(60 * 100), seconds)
    THEN LET m == seconds.cs \div (60 * 100)
             s == seconds.cs - m * 60 * 100
         IN  Ok([form |-> "m s", h |-> 0, m |-> m, s |-> Fin(s)])
    ELSE Ok([form |-> "s", h |-> 0, m |-> 0, s |-> seconds])

fmt_dur(seconds) ==
    IF FGe(seconds, Fin(3600 * 100))
    THEN IF seconds.k # "fin" THEN Err
         ELSE LET h == seconds.cs \div (3600 * 100)
                  remainder == seconds.cs - h * 3600 * 100
                  m == remainder \div (60 * 100)
                  s == remainder - m * 60 * 100
              IN  Ok([form |-> "h m s", h |-> h, m |-> m, s |-> Fin(s)])
    ELSE IF FGe(seconds, Fin(60 * 100))
    THEN LET m == seconds.cs \div (60 * 100)
             s == seconds.cs - m * 60 * 100
         IN  Ok([form |-> "m s", h |-> 0, m |-> m, s |-> Fin(s)])
    ELSE Ok([form |-> "s", h |-> 0, m |-> 0, s |-> seconds])

(***************************************************************************)
(* parse_iso_datetime.  A timestamp is <<date-time, ".", fraction digits,  *)
(* offset>>: the date and time of day to the second are one piece, looked  *)
(* up in DateTimeSecs (seconds since 2024-01-15T00:00:00); the fraction    *)
(* digits and the offset's sign, digits and colon are one piece each.      *)
(***************************************************************************)
DateTimes == <<"2024-01-15T10:30:00", "2024-01-15T10:30:05", "2024-01-15T12:30:00">>
DateTimeSecs(dt) ==
    CASE dt = "2024-01-15T10:30:00" -> 37800
      [] dt = "2024-01-15T10:30:05" -> 37805
      [] dt = "2024-01-15T12:30:00" -> 45000
IsDateTime(dt) == \E i \in 1..Len(DateTimes) : DateTimes[i] = dt

\* re.search(r'[+-]\d{2}:\d{2}$', s)
HasColonOffset(s) ==
    LET n == Len(s)
    IN  /\ n >= 6
        /\ s[n - 5] \in {"+", "-"}
        /\ IsDigit(s[n - 4]) /\ IsDigit(s[n - 3])
        /\ s[n - 2] = ":"
        /\ IsDigit(s[n - 1]) /\ IsDigit(s[n])

\* s[:-3] + s[-2:]
DropOffsetColon(s) ==
    SubSeq(s, 1, Len(s) - 3) \o SubSeq(s, Len(s) - 1, Len(s))

\* The places of the '.' at which r'(.+\.\d{6})\d*([+-]\d{4})$' matches.
FractionMatches(s) ==
    LET n == Len(s)
    IN  { d \in 2..(n - 11) :
            /\ s[d] = "."
            /\ \A i \in (d + 1)..(n - 5) : IsDigit(s[i])
            /\ s[n - 4] \in {"+", "-"}
            /\ \A i \in (n - 3)..n : IsDigit(s[i]) }

\* Mutant of TruncateFraction: the fraction is left as it is.
TruncateFraction_Whole(s) == s

\* match.group(1) + match.group(2)
TruncateFraction(s) ==
    IF FractionMatches(s) = {} THEN s
    ELSE LET d == CHOOSE x \in FractionMatches(s) : TRUE
         IN  SubSeq(s, 1, d + 6) \o SubSeq(s, Len(s) - 4, Len(s))

\* The fraction digits as microseconds (%f: one to six digits, padded right).
RECURSIVE Micros(_, _)
Micros(frac, width) ==
    IF width = 0 THEN 0
    ELSE (IF frac = <<>> THEN 0 ELSE DigitVal(Head(frac))) * (10 ^ (width - 1))
         + Micros(IF frac = <<>> THEN <<>> ELSE Tail(frac), width - 1)

\* %z: +HHMM, +HH:MM or Z; the offset in seconds.
OffsetSecs(tz) ==
    IF tz = <<"Z">> THEN Ok(0)
    ELSE LET t == IF HasColonOffset(tz) THEN DropOffsetColon(tz) ELSE tz
         IN  IF Len(t) = 5 /\ Signed(t) /\ AllDigits(Tail(t))
             THEN LET mag == DigitsValue(SubSeq(t, 2, 3)) * 3600
                             + DigitsValue(SubSeq(t, 4, 5)) * 60
                  IN  Ok(IF Negative(t) THEN 0 - mag ELSE mag)
             ELSE Err

\* datetime.strptime(s, "%Y-%m-%dT%H:%M:%S.%f%z"): the wall-clock reading
\* (dt, micros), the offset and the absolute instant (seconds and
\* microseconds).
strptime(s) ==
    IF ~(Len(s) >= 4 /\ IsDateTime(s[1]) /\ s[2] = ".") THEN Err
    ELSE LET rest == SubSeq(s, 3, Len(s))
             nd == IF \A i \in 1..Len(rest) : IsDigit(rest[i]) THEN Len(rest)
                   ELSE (CHOOSE i \in 1..Len(rest) :
                            ~IsDigit(rest[i]) /\ \A j \in 1..(i - 1) : IsDigit(rest[j])) - 1
             frac == SubSeq(rest, 1, IF nd > 6 THEN 6 ELSE nd)
             tz == SubSeq(rest, Len(frac) + 1, Len(rest))
             off == OffsetSecs(tz)
         IN  IF nd >= 1 /\ off.ok
             THEN Ok([dt |-> s[1], micros |-> Micros(frac, 6), offset |-> off.v,
                      instant |-> [secs |-> DateTimeSecs(s[1]) - off.v,
                                   micros |-> Micros(frac, 6)]])
             ELSE Err

parse_iso_datetime(s) ==
    LET s1 == IF HasColonOffset(s) THEN DropOffsetColon(s) ELSE s
    IN  strptime(TruncateFraction(s1))

\* (run_finish - run_start).total_seconds()
total_seconds(finish, start) ==
    Fin((finish.instant.secs - start.instant.secs) * 100
        + (finish.instant.micros - start.instant.micros) \div 10000)

(***************************************************************************)
(* html.escape                                                             *)
(***************************************************************************)
SpecialChars == {"&", "<", ">", "\"", "'"}
EscapeChar(c) ==
    CASE c = "&" -> "&amp;"
      [] c = "<" -> "&lt;"
      [] c = ">" -> "&gt;"
      [] c = "\"" -> "&quot;"
      [] c = "'" -> "&#x27;"
      [] OTHER -> c
html_escape(s) == [i \in 1..Len(s) |-> EscapeChar(s[i])]

(***************************************************************************)
(* str.strip()                                                             *)
(***************************************************************************)
Whitespace == {" ", "\n", "\t"}
RECURSIVE lstrip(_)
lstrip(s) == IF s # <<>> /\ Head(s) \in Whitespace THEN lstrip(Tail(s)) ELSE s
RECURSIVE rstrip(_)
rstrip(s) ==
    IF s # <<>> /\ s[Len(s)] \in Whitespace
    THEN rstrip(SubSeq(s, 1, Len(s) - 1)) ELSE s
strip(s) == rstrip(lstrip(s))


(***************************************************************************)
(* The static tables.  A table is a sequence of <<key, text>> pairs.       *)
(* TEST_DESCRIPTIONS holds the entries of the source for the method names  *)
(* the input documents below use (the source has 180 of the same shape).   *)
(***************************************************************************)
CLASS_PREFIX == <<"TestIT", ".", "ApiTests", ".", "Tests", ".">>
Q(c) == CLASS_PREFIX \o <<c>>

TEST_DESCRIPTIONS ==
    <<
        <<<<"Login_WithValidCredentials_ReturnsAuthenticationTokens">>, <<"Registers a user, then logs in with the same credentials. Verifies both an access token and a refresh token are returned.">>>>,
        <<<<"ManualCleanup_DryRun">>, <<"Runs cleanup in dry-run mode. Reports what would be deleted without making changes.">>>>
    >>

CLASS_ORDER ==
    <<
        Q("AuthenticationTests"),
        Q("TestsManagementTests"),
        Q("QuestionManagementTests"),
        Q("TestTakingTests"),
        Q("CompanyTests"),
        Q("InviteTests"),
        Q("FolderTests"),
        Q("AnalyticsTests"),
        Q("SecurityTests"),
        Q("DataIntegrityTests"),
        Q("EdgeCaseTests"),
        Q("CoverageTests"),
        Q("PatchTests"),
        Q("PerformanceTests"),
        Q("SchemaValidationTests"),
        Q("StressTests"),
        Q("CleanupTests")
    >>

CLASS_DESCRIPTIONS ==
    <<
        <<Q("AuthenticationTests"), <<"Registration, login, token refresh and profile retrieval -- covers the full authentication lifecycle and input-validation edge cases.">>>>,
        <<Q("TestsManagementTests"), <<"CRUD operations on quizzes: create, list, fetch by slug, update, delete and add questions -- plus auth-enforcement checks.">>>>,
        <<Q("QuestionManagementTests"), <<"Editing, deleting and reordering questions within a test, including multi-select question creation.">>>>,
        <<Q("TestTakingTests"), <<"The end-to-end test-taking flow: public and password-protected access, attempt lifecycle, draft saving, scoring and results retrieval.">>>>,
        <<Q("CompanyTests"), <<"Company CRUD, member listing, company-scoped test listing and creation -- plus an unauthenticated-access check.">>>>,
        <<Q("InviteTests"), <<"Invite lifecycle: creation, duplicate detection, listing and the full accept flow that converts a pending invite into membership.">>>>,
        <<Q("FolderTests"), <<"Folder CRUD within a company, including nested parent-child folder creation.">>>>,
        <<Q("AnalyticsTests"), <<"Per-test analytics: empty-state reporting, post-submission stats and access-control enforcement.">>>>,
        <<Q("SecurityTests"), <<"Input validation, SQL injection prevention, XSS protection, and authentication/authorization enforcement.">>>>,
        <<Q("DataIntegrityTests"), <<"Scoring accuracy, immutability checks, and data consistency validation.">>>>,
        <<Q("EdgeCaseTests"), <<"Boundary value testing, malformed input handling, and edge case scenarios.">>>>,
        <<Q("CoverageTests"), <<"API surface area validation and authorization checks across endpoints.">>>>,
        <<Q("PatchTests"), <<"PATCH endpoint testing for partial updates and field modifications.">>>>,
        <<Q("PerformanceTests"), <<"Response latency SLA tests measuring API performance across different operation types.">>>>,
        <<Q("SchemaValidationTests"), <<"API contract validation ensuring correct field types and absence of sensitive data leaks.">>>>,
        <<Q("StressTests"), <<"Load testing and concurrency validation under high request volumes.">>>>
    >>

\* dict.get(key, "")
lookup(table, key) ==
    IF \E i \in 1..Len(table) : table[i][1] = key
    THEN (table[CHOOSE i \in 1..Len(table) : table[i][1] = key])[2]
    ELSE <<>>

InSeq(x, s) == \E i \in 1..Len(s) : s[i] = x

(***************************************************************************)
(* class Test and the loop over the result entries                         *)
(***************************************************************************)
\* Mutant of Test: splits at the first '.' instead of the last.
Test_SplitAtFirstDot(id, full_name, outcome, duration_sec, description, stdout) ==
    LET parts == split(full_name, ".")
        idx == IF InSeq(".", full_name) THEN Len(parts[1]) + 1 ELSE 0
    IN  [id |-> id,
         full_name |-> full_name,
         outcome |-> outcome,
         duration_sec |-> duration_sec,
         description |-> description,
         stdout |-> stdout,
         class_name |-> IF idx # 0 THEN SubSeq(full_name, 1, idx - 1) ELSE <<>>,
         method_name |-> IF idx # 0 THEN SubSeq(full_name, idx + 1, Len(full_name))
                                    ELSE full_name]

\* id is the object's identity: its position in the list of parsed tests.
Test(id, full_name, outcome, duration_sec, description, stdout) ==
    LET idx == rfind(full_name, ".")
    IN  [id |-> id,
         full_name |-> full_name,
         outcome |-> outcome,
         duration_sec |-> duration_sec,
         description |-> description,
         stdout |-> stdout,
         class_name |-> IF idx # 0 THEN SubSeq(full_name, 1, idx - 1) ELSE <<>>,
         method_name |-> IF idx # 0 THEN SubSeq(full_name, idx + 1, Len(full_name))
                                    ELSE full_name]

\* stdout_el.text.strip() if stdout_el is not None and stdout_el.text else ""
\* Mutant of StdOutText: stdout_el.text without .strip().
StdOutText_Unstripped(r) ==
    IF r.stdout # Absent /\ TheValue(r.stdout) # <<>>
    THEN TheValue(r.stdout) ELSE <<>>

\* stdout_el.text.strip() if stdout_el is not None and stdout_el.text else ""
StdOutText(r) ==
    IF r.stdout # Absent /\ TheValue(r.stdout) # <<>>
    THEN strip(TheValue(r.stdout)) ELSE <<>>

\* Mutant of LookupName: the description is looked up by the full name.
LookupName_Whole(full_test_name) == full_test_name

\* full_test_name.split(".")[-1] if "." in full_test_name else full_test_name
LookupName(full_test_name) ==
    IF InSeq(".", full_test_name)
    THEN LET parts == split(full_test_name, ".") IN parts[Len(parts)]
    ELSE full_test_name

DefaultDuration ==
    <<"0", "0", ":", "0", "0", ":", "0", "0", ".", "0", "0", "0", "0", "0", "0", "0">>

\* Mutant of StoredOutcome: a string that is no known status becomes Unknown.
StoredOutcome_Normalised(r) ==
    IF r.outcome \in { Some(o) : o \in {<<"Passed">>, <<"Failed">>, <<"Error">>,
                                         <<"NotExecuted">>} }
    THEN TheValue(r.outcome) ELSE <<"Unknown">>

\* The outcome attribute as stored in the Test.
StoredOutcome(r) == get(r.outcome, <<"Unknown">>)

\* One iteration of the loop: the Test appended, or the error raised.
ResultEntry(id, r) ==
    LET full_test_name == get(r.testName, <<>>)
        dur == parse_duration(get(r.duration, DefaultDuration))
    IN  IF dur.ok
        THEN Ok(Test(id, full_test_name, StoredOutcome(r), dur.v,
                     lookup(TEST_DESCRIPTIONS, LookupName(full_test_name)),
                     StdOutText(r)))
        ELSE Err

(***************************************************************************)
(* Grouping by class (an OrderedDict: a sequence of [name, tests] items    *)
(* with distinct names, in insertion order) and reordering by CLASS_ORDER. *)
(***************************************************************************)
HasKey(d, key) == \E i \in 1..Len(d) : d[i].name = key
Item(d, key) == d[CHOOSE i \in 1..Len(d) : d[i].name = key]

\* Mutant of SetDefaultAppend: classes[t.class_name] = [t]
SetDefaultAppend_Overwrite(d, t) ==
    IF HasKey(d, t.class_name)
    THEN [i \in 1..Len(d) |->
            IF d[i].name = t.class_name
            THEN [name |-> d[i].name, tests |-> <<t>>]
            ELSE d[i]]
    ELSE Append(d, [name |-> t.class_name, tests |-> <<t>>])

\* classes.setdefault(t.class_name, []).append(t)
SetDefaultAppend(d, t) ==
    IF HasKey(d, t.class_name)
    THEN [i \in 1..Len(d) |->
            IF d[i].name = t.class_name
            THEN [name |-> d[i].name, tests |-> Append(d[i].tests, t)]
            ELSE d[i]]
    ELSE Append(d, [name |-> t.class_name, tests |-> <<t>>])

RECURSIVE GroupTests(_, _)
GroupTests(d, ts) ==
    IF ts = <<>> THEN d ELSE GroupTests(SetDefaultAppend(d, Head(ts)), Tail(ts))

\* for class_name in CLASS_ORDER: if class_name in classes: ...
RECURSIVE PreferredClasses(_, _)
PreferredClasses(order, d) ==
    IF order = <<>> THEN <<>>
    ELSE (IF HasKey(d, Head(order)) THEN <<Item(d, Head(order))>> ELSE <<>>)
         \o PreferredClasses(Tail(order), d)

\* for class_name, tests_list in classes.items():
\*     if class_name not in sorted_classes: ...
RECURSIVE RemainingClasses(_, _)
RemainingClasses(d, sorted) ==
    IF d = <<>> THEN sorted
    ELSE RemainingClasses(Tail(d),
            IF HasKey(sorted, Head(d).name) THEN sorted ELSE Append(sorted, Head(d)))

\* Mutant of SortedClasses: the reordered dictionary is never used.
SortedClasses_InputOrder(d) == d

SortedClasses(d) == RemainingClasses(d, PreferredClasses(CLASS_ORDER, d))

(***************************************************************************)
(* Overall statistics                                                      *)
(***************************************************************************)
\* Mutant of PassRate: the ratio, not the percentage.
PassRate_NoPercent(passed, total_tests) ==
    IF total_tests # 0 THEN [num |-> passed, den |-> total_tests]
                       ELSE [num |-> 0, den |-> 1]

\* (passed / total_tests * 100) if total_tests else 0.0, as the fraction
\* num / den.
PassRate(passed, total_tests) ==
    IF total_tests # 0 THEN [num |-> passed * 100, den |-> total_tests]
                       ELSE [num |-> 0, den |-> 1]

AllPassed(failed, errors) == (failed + errors) = 0

\* max(tests, key=...) and min(tests, key=...): the first of the greatest
\* (least) elements; None (Absent) when there are no tests.
RECURSIVE MaxFrom(_, _)
MaxFrom(best, ts) ==
    IF ts = <<>> THEN best
    ELSE MaxFrom(IF FLess(best.duration_sec, Head(ts).duration_sec)
                 THEN Head(ts) ELSE best, Tail(ts))
RECURSIVE MinFrom(_, _)
MinFrom(best, ts) ==
    IF ts = <<>> THEN best
    ELSE MinFrom(IF FLess(Head(ts).duration_sec, best.duration_sec)
                 THEN Head(ts) ELSE best, Tail(ts))
Slowest(ts) == IF ts # <<>> THEN Some(MaxFrom(Head(ts), Tail(ts))) ELSE Absent
Fastest(ts) == IF ts # <<>> THEN Some(MinFrom(Head(ts), Tail(ts))) ELSE Absent

\* sum(t.duration_sec for t in ts)
RECURSIVE SumDurations(_)
SumDurations(ts) ==
    IF ts = <<>> THEN Fin(0)
    ELSE FAdd(SumDurations(SubSeq(ts, 1, Len(ts) - 1)), ts[Len(ts)].duration_sec)

AvgDur(ts) == IF ts # <<>> THEN FDivInt(SumDurations(ts), Len(ts)) ELSE Fin(0)


(***************************************************************************)
(* sorted(test_list, key=lambda x: x.method_name): a stable sort under the *)
(* order of str.  Collation lists the pieces that occur in method names in *)
(* ascending order of their first character's code point; no two of them   *)
(* start with the same character, so comparing piece by piece is comparing *)
(* character by character.                                                 *)
(***************************************************************************)
Collation ==
    <<" ", "&", "'", "<", ">", "A", "B",
      "Login_WithValidCredentials_ReturnsAuthenticationTokens",
      "ManualCleanup_DryRun", "a", "b", "script", "x", "y">>
Ord(c) == CHOOSE i \in 1..Len(Collation) : Collation[i] = c

StrLess(a, b) ==
    \E k \in 1..(Len(b)) :
        /\ k <= Len(a) + 1
        /\ \A j \in 1..(k - 1) : a[j] = b[j]
        /\ (k = Len(a) + 1 \/ Ord(a[k]) < Ord(b[k]))

\* t goes before the first element whose key is greater than its own.
InsertByMethodName(ts, t) ==
    LET after == { i \in 1..Len(ts) : StrLess(t.method_name, ts[i].method_name) }
        pos == IF after = {} THEN Len(ts) + 1
               ELSE CHOOSE i \in after : \A j \in after : i <= j
    IN  SubSeq(ts, 1, pos - 1) \o <<t>> \o SubSeq(ts, pos, Len(ts))

\* Mutant of SortedByMethodName: the rows stay in the order of the list.
SortedByMethodName_Unsorted(ts) == ts

RECURSIVE SortedByMethodName(_)
SortedByMethodName(ts) ==
    IF ts = <<>> THEN <<>>
    ELSE InsertByMethodName(SortedByMethodName(SubSeq(ts, 1, Len(ts) - 1)),
                            ts[Len(ts)])

(***************************************************************************)
(* Rendering.  The document is the record of its variable parts; every     *)
(* text part holds the pieces as they are inserted into the markup.        *)
(***************************************************************************)
C_GREEN_BG == "#2e7d32"
C_RED_BG == "#c62828"
C_GREEN_TEXT == "#1e8449"
C_RED_TEXT == "#c0392b"
C_GREEN_LIGHT == "#eafaf1"
C_RED_LIGHT == "#fdedec"

short_class(name) ==
    IF startswith(name, CLASS_PREFIX)
    THEN SubSeq(name, Len(CLASS_PREFIX) + 1, Len(name)) ELSE name

\* The text of a test name, a description, an outcome or a captured output
\* as class_table inserts it.
RowText(s) == html_escape(s)

\* Mutant of TestRow: the row is numbered by the place of its entry in the
\* document, not by its place in the section.
TestRow_ByEntry(class_index, i, t) ==
    [label |-> <<class_index, t.id>>,
     of |-> t.id,
     name |-> RowText(t.method_name),
     description |-> IF t.description # <<>> THEN Some(RowText(t.description))
                                             ELSE Absent,
     color |-> IF t.outcome = <<"Passed">> THEN C_GREEN_BG ELSE C_RED_BG,
     outcome |-> RowText(t.outcome),
     duration |-> fmt_dur(t.duration_sec),
     log |-> IF t.stdout # <<>> THEN Some(RowText(t.stdout)) ELSE Absent]

\* One <tr> of a test; "of" is the identity of the Test it renders.
TestRow(class_index, i, t) ==
    [label |-> <<class_index, i>>,
     of |-> t.id,
     name |-> RowText(t.method_name),
     description |-> IF t.description # <<>> THEN Some(RowText(t.description))
                                             ELSE Absent,
     color |-> IF t.outcome = <<"Passed">> THEN C_GREEN_BG ELSE C_RED_BG,
     outcome |-> RowText(t.outcome),
     duration |-> fmt_dur(t.duration_sec),
     log |-> IF t.stdout # <<>> THEN Some(RowText(t.stdout)) ELSE Absent]

\* Mutant of PassedCount: every outcome that is not "Failed" counts.
PassedCount_NotFailed(test_list) ==
    Cardinality({ i \in 1..Len(test_list) : test_list[i].outcome # <<"Failed">> })

\* sum(1 for t in test_list if t.outcome == "Passed")
PassedCount(test_list) ==
    Cardinality({ i \in 1..Len(test_list) : test_list[i].outcome = <<"Passed">> })
\* any(t.outcome != "Passed" for t in test_list)
HasFail(test_list) ==
    \E i \in 1..Len(test_list) : test_list[i].outcome # <<"Passed">>

class_table(class_index, class_name, test_list) ==
    LET ordered == SortedByMethodName(test_list)
        rows == [i \in 1..Len(ordered) |-> TestRow(class_index, i, ordered[i])]
        total_d == fmt_dur(SumDurations(test_list))
        class_desc == lookup(CLASS_DESCRIPTIONS, class_name)
    IN  IF (\A i \in 1..Len(rows) : rows[i].duration.ok) /\ total_d.ok
        THEN Ok([index |-> class_index,
                 short |-> html_escape(short_class(class_name)),
                 count |-> Len(test_list),
                 passed_count |-> PassedCount(test_list),
                 total_d |-> total_d.v,
                 has_fail |-> HasFail(test_list),
                 header_color |-> IF HasFail(test_list) THEN C_RED_TEXT
                                                        ELSE C_GREEN_TEXT,
                 class_desc |-> IF class_desc # <<>> THEN Some(class_desc)
                                                     ELSE Absent,
                 rows |-> [i \in 1..Len(rows) |->
                             [rows[i] EXCEPT !.duration = rows[i].duration.v]]])
        ELSE Err

\* Mutant of CardText: the name goes into the card as it is.
CardText_Raw(s) == s

\* The sub-line of the slowest/fastest stat card.
CardText(s) == html_escape(s)

\* stat_card(label, fmt_dur(t.duration_sec) if t else "-",
\*           html.escape(t.method_name) if t else "", ...)
stat_card(t) ==
    IF t = Absent THEN Ok([value |-> Absent, sub |-> <<>>])
    ELSE LET d == fmt_dur(TheValue(t).duration_sec)
         IN  IF d.ok THEN Ok([value |-> Some(d.v),
                              sub |-> CardText(TheValue(t).method_name)])
                     ELSE Err

SummaryBg(ok) == IF ok THEN C_GREEN_BG ELSE C_RED_BG

\* Mutant of AvgPerTest: the division without its condition.
AvgPerTest_Unguarded(duration, total_tests) == FDivInt(duration, total_tests)

\* run_duration_sec / total_tests if total_tests > 0 else 0
AvgPerTest(duration, total_tests) ==
    IF total_tests > 0 THEN FDivInt(duration, total_tests) ELSE Fin(0)

(***************************************************************************)
(* The state of one run of the script.                                     *)
(*   doc       the input document: [wellformed, Times, Counters, results]  *)
(*   can_open  whether open(HTML_PATH, "w") succeeds                       *)
(*   out_file  the file at HTML_PATH: Absent, or Some of its content       *)
(*   pc        the statement the run is at                                 *)
(*   error     Absent, or Some of the statement that raised                *)
(*   fh        the output file handle: "none", "open" or "closed"          *)
(*   printed   whether the confirmation line has been printed              *)
(*   argv      sys.argv: the script's name and the positional arguments    *)
(*   earlier   Absent in the first run over the document; in a second run, *)
(*             Some of how the first run ended: [pc, error, out_file]      *)
(* The other variables are the script's module-level names; Unset before   *)
(* their assignment.                                                       *)
(***************************************************************************)
VARIABLES doc, can_open, out_file, pc, error, fh, printed, earlier,
          argv, TRX_PATH, HTML_PATH,
          run_start, run_finish, run_duration_sec, counters, tests, classes,
          pass_rate, all_passed, slowest, fastest, avg_dur, html_doc

vars == <<doc, can_open, out_file, pc, error, fh, printed, earlier,
          argv, TRX_PATH, HTML_PATH,
          run_start, run_finish, run_duration_sec, counters, tests, classes,
          pass_rate, all_passed, slowest, fastest, avg_dur, html_doc>>

Unset == {}

OldContent == [kind |-> "old", text |-> Unset]
Truncated == [kind |-> "empty", text |-> Unset]
Report(text) == [kind |-> "report", text |-> Some(text)]
\* The file's content after fh.write(text): text follows what the file held
\* when it was opened.
Written(before, text) ==
    IF before = Truncated THEN Report(text)
    ELSE [kind |-> "appended", to |-> before, text |-> Some(text)]

paths == <<argv, TRX_PATH, HTML_PATH>>
parsed == <<run_start, run_finish, run_duration_sec, counters, tests>>
aggregated == <<classes, pass_rate, all_passed, slowest, fastest, avg_dur>>
output == <<out_file, fh, printed>>

\* The f-string of html_doc: the document, or the error a fmt_dur raises.
HtmlDoc ==
    LET sections == [i \in 1..Len(classes) |->
                        class_table(i, classes[i].name, classes[i].tests)]
        total_duration == fmt_dur(run_duration_sec)
        per_test == AvgPerTest(run_duration_sec, counters.total_tests)
        avg_per_test == IF per_test = Err THEN Err ELSE fmt_dur(per_test)
        slow == stat_card(slowest)
        fast == stat_card(fastest)
        avg == fmt_dur(avg_dur)
    IN  IF /\ \A i \in 1..Len(sections) : sections[i].ok
           /\ total_duration.ok /\ avg_per_test.ok
           /\ slow.ok /\ fast.ok /\ avg.ok
        THEN Ok([started |-> run_start.dt,
                 finished |-> run_finish.dt,
                 summary_bg |-> SummaryBg(all_passed),
                 tests_passed |-> <<counters.passed, counters.total_tests>>,
                 pass_rate |-> pass_rate,
                 total_duration |-> total_duration.v,
                 avg_per_test |-> avg_per_test.v,
                 sections |-> [i \in 1..Len(sections) |-> sections[i].v],
                 slowest |-> slow.v,
                 fastest |-> fast.v,
                 avg_duration |-> [value |-> avg.v, across |-> Len(tests)]])
        ELSE Err

\* Mutant of Raise: the exception is caught and the script starts over.
Raise_Retry ==
    /\ pc' = "parse"
    /\ error' = Absent

\* An uncaught exception ends the run at the statement that raised it.
Raise ==
    /\ pc' = "failed"
    /\ error' = Some(pc)

(***************************************************************************)
(* if len(sys.argv) >= 3: TRX_PATH = sys.argv[1]; HTML_PATH = sys.argv[2]  *)
(* else: the default paths.  argv[1] is sys.argv[0], the script's name.    *)
(***************************************************************************)
DefaultTrxPath == "/home/kolev95/examtest1/TestIT.ApiTests/results.trx"
DefaultHtmlPath == "/home/kolev95/examtest1/TestIT.ApiTests/test-report.html"

SetPaths ==
    /\ pc = "paths"
    /\ IF Len(argv) >= 3
       THEN TRX_PATH' = argv[2] /\ HTML_PATH' = argv[3]
       ELSE TRX_PATH' = DefaultTrxPath /\ HTML_PATH' = DefaultHtmlPath
    /\ pc' = "parse"
    /\ UNCHANGED <<argv, doc, can_open, earlier, error, parsed, aggregated,
                   html_doc, output>>

(***************************************************************************)
(* tree = ET.parse(TRX_PATH); root = tree.getroot()                        *)
(***************************************************************************)
ParseDocument ==
    /\ pc = "parse"
    /\ IF doc.wellformed
       THEN pc' = "times" /\ UNCHANGED error
       ELSE Raise
    /\ UNCHANGED <<doc, can_open, earlier, paths, parsed, aggregated, html_doc, output>>

(***************************************************************************)
(* times_el = root.find("ns:Times", NS); run_start, run_finish,            *)
(* run_duration_sec                                                        *)
(***************************************************************************)
ParseTimes ==
    /\ pc = "times"
    /\ LET ok == /\ doc.Times # Absent
                 /\ TheValue(doc.Times).start # Absent
                 /\ TheValue(doc.Times).finish # Absent
                 /\ parse_iso_datetime(TheValue(TheValue(doc.Times).start)).ok
                 /\ parse_iso_datetime(TheValue(TheValue(doc.Times).finish)).ok
       IN  IF ok
           THEN LET s == parse_iso_datetime(TheValue(TheValue(doc.Times).start)).v
                    f == parse_iso_datetime(TheValue(TheValue(doc.Times).finish)).v
                IN  /\ run_start' = s
                    /\ run_finish' = f
                    /\ run_duration_sec' = total_seconds(f, s)
                    /\ pc' = "counters"
                    /\ UNCHANGED error
           ELSE Raise /\ UNCHANGED <<run_start, run_finish, run_duration_sec>>
    /\ UNCHANGED <<doc, can_open, earlier, paths, counters, tests, aggregated, html_doc, output>>

(***************************************************************************)
(* counters = root.find(".//ns:Counters", NS); total_tests, passed,        *)
(* failed, errors, skipped                                                 *)
(***************************************************************************)
Zero == <<"0">>
CounterAttrs == {"total", "passed", "failed", "error", "notExecuted"}

\* Mutant of Counter: int(counters.get(attr)), without the default.
Counter_Required(c, attr) == IF c[attr] = Absent THEN Err ELSE int(TheValue(c[attr]))

Counter(c, attr) == int(get(c[attr], Zero))

ParseCounters ==
    /\ pc = "counters"
    /\ IF /\ doc.Counters # Absent
          /\ \A a \in CounterAttrs : Counter(TheValue(doc.Counters), a).ok
       THEN LET c == TheValue(doc.Counters)
            IN  /\ counters' = [total_tests |-> Counter(c, "total").v,
                                passed |-> Counter(c, "passed").v,
                                failed |-> Counter(c, "failed").v,
                                errors |-> Counter(c, "error").v,
                                skipped |-> Counter(c, "notExecuted").v]
                /\ pc' = "results"
                /\ UNCHANGED error
       ELSE Raise /\ UNCHANGED counters
    /\ UNCHANGED <<doc, can_open, earlier, paths, run_start, run_finish, run_duration_sec,
                   tests, aggregated, html_doc, output>>

(***************************************************************************)
(* for r in root.findall(".//ns:UnitTestResult", NS): one iteration        *)
(***************************************************************************)
ParseResult ==
    /\ pc = "results"
    /\ Len(tests) < Len(doc.results)
    /\ LET t == ResultEntry(Len(tests) + 1, doc.results[Len(tests) + 1])
       IN  IF t.ok
           THEN tests' = Append(tests, t.v) /\ UNCHANGED <<pc, error>>
           ELSE Raise /\ UNCHANGED tests
    /\ UNCHANGED <<doc, can_open, earlier, paths, run_start, run_finish, run_duration_sec,
                   counters, aggregated, html_doc, output>>

(***************************************************************************)
(* classes = OrderedDict(); for t in tests: classes.setdefault(...)        *)
(***************************************************************************)
GroupByClass ==
    /\ pc = "results"
    /\ Len(tests) = Len(doc.results)
    /\ classes' = GroupTests(<<>>, tests)
    /\ pc' = "sort"
    /\ UNCHANGED <<doc, can_open, earlier, paths, error, parsed, pass_rate, all_passed,
                   slowest, fastest, avg_dur, html_doc, output>>

(***************************************************************************)
(* sorted_classes = OrderedDict(); ...; classes = sorted_classes           *)
(***************************************************************************)
SortClasses ==
    /\ pc = "sort"
    /\ classes' = SortedClasses(classes)
    /\ pc' = "stats"
    /\ UNCHANGED <<doc, can_open, earlier, paths, error, parsed, pass_rate, all_passed,
                   slowest, fastest, avg_dur, html_doc, output>>

(***************************************************************************)
(* pass_rate, all_passed, slowest, fastest, avg_dur                        *)
(***************************************************************************)
\* A division by 0 raises ZeroDivisionError: the names before it are
\* assigned, the others are not.
OverallStats ==
    /\ pc = "stats"
    /\ LET rate == PassRate(counters.passed, counters.total_tests)
           avg == AvgDur(tests)
       IN  IF rate.den = 0
           THEN Raise /\ UNCHANGED <<pass_rate, all_passed, slowest, fastest, avg_dur>>
           ELSE /\ pass_rate' = rate
                /\ all_passed' = AllPassed(counters.failed, counters.errors)
                /\ slowest' = Slowest(tests)
                /\ fastest' = Fastest(tests)
                /\ IF avg = Err
                   THEN Raise /\ UNCHANGED avg_dur
                   ELSE avg_dur' = avg /\ pc' = "render" /\ UNCHANGED error
    /\ UNCHANGED <<doc, can_open, earlier, paths, parsed, classes, html_doc, output>>

\* Mutant of Render: the output file is opened first and the document is
\* rendered inside the with block.
Render_IntoOpenFile ==
    /\ pc = "render"
    /\ can_open
    /\ out_file' = Some(Truncated)
    /\ fh' = "open"
    /\ LET h == HtmlDoc
       IN  IF h.ok
           THEN html_doc' = h.v /\ pc' = "write" /\ UNCHANGED error
           ELSE Raise /\ UNCHANGED html_doc
    /\ UNCHANGED <<doc, can_open, earlier, paths, parsed, aggregated, printed>>

\* Mutant of Render: class_table sorts each category's list in place
\* (test_list.sort(key=...)) where the code has sorted(test_list, key=...).
Render_SortInPlace ==
    /\ pc = "render"
    /\ LET h == HtmlDoc
       IN  IF h.ok
           THEN /\ html_doc' = h.v /\ pc' = "open" /\ UNCHANGED error
                /\ classes' = [k \in 1..Len(classes) |->
                                  [classes[k] EXCEPT !.tests = SortedByMethodName(@)]]
           ELSE Raise /\ UNCHANGED <<html_doc, classes>>
    /\ UNCHANGED <<doc, can_open, earlier, paths, parsed, output,
                   pass_rate, all_passed, slowest, fastest, avg_dur>>

(***************************************************************************)
(* html_doc = f"""..."""                                                   *)
(***************************************************************************)
Render ==
    /\ pc = "render"
    /\ LET h == HtmlDoc
       IN  IF h.ok
           THEN html_doc' = h.v /\ pc' = "open" /\ UNCHANGED error
           ELSE Raise /\ UNCHANGED html_doc
    /\ UNCHANGED <<doc, can_open, earlier, paths, parsed, aggregated, output>>

(***************************************************************************)
(* with open(HTML_PATH, "w", encoding="utf-8") as fh:                      *)
(***************************************************************************)
\* Mutant of OpenOutput: mode "a", which keeps what the file holds.
OpenOutput_Append ==
    /\ pc = "open"
    /\ IF can_open
       THEN /\ out_file' = IF out_file = Absent THEN Some(Truncated) ELSE out_file
            /\ fh' = "open"
            /\ pc' = "write"
            /\ UNCHANGED error
       ELSE Raise /\ UNCHANGED <<out_file, fh>>
    /\ UNCHANGED <<doc, can_open, earlier, paths, parsed, aggregated, html_doc, printed>>

OpenOutput ==
    /\ pc = "open"
    /\ IF can_open
       THEN /\ out_file' = Some(Truncated)
            /\ fh' = "open"
            /\ pc' = "write"
            /\ UNCHANGED error
       ELSE Raise /\ UNCHANGED <<out_file, fh>>
    /\ UNCHANGED <<doc, can_open, earlier, paths, parsed, aggregated, html_doc, printed>>

(***************************************************************************)
(*     fh.write(html_doc)      and the end of the with block               *)
(***************************************************************************)
WriteOutput ==
    /\ pc = "write"
    /\ out_file' = Some(Written(TheValue(out_file), html_doc))
    /\ fh' = "closed"
    /\ pc' = "print"
    /\ UNCHANGED <<doc, can_open, earlier, paths, error, parsed, aggregated, html_doc, printed>>

(***************************************************************************)
(* print(f"Report written to: {HTML_PATH}")                                *)
(***************************************************************************)
PrintConfirmation ==
    /\ pc = "print"
    /\ printed' = TRUE
    /\ pc' = "done"
    /\ UNCHANGED <<doc, can_open, earlier, paths, error, parsed, aggregated, html_doc,
                   out_file, fh>>

Next ==
    \/ ParseDocument
    \/ ParseTimes
    \/ ParseCounters
    \/ ParseResult
    \/ GroupByClass
    \/ SortClasses
    \/ OverallStats
    \/ Render
    \/ OpenOutput
    \/ WriteOutput
    \/ PrintConfirmation

(***************************************************************************)
(* The script is started a second time over the same document at          *)
(* TRX_PATH.  What is outside the document may differ from the first run:  *)
(* the file at HTML_PATH now holds what the first run left there, and      *)
(* opening it may succeed or fail.  Nothing of the first process is kept.  *)
(***************************************************************************)
RunAgain ==
    /\ pc \in {"done", "failed"}
    /\ earlier = Absent
    /\ earlier' = Some([pc |-> pc, error |-> error, out_file |-> out_file])
    /\ can_open' \in BOOLEAN
    /\ pc' = "parse"
    /\ error' = Absent
    /\ fh' = "none"
    /\ printed' = FALSE
    /\ tests' = <<>>
    /\ run_start' = Unset /\ run_finish' = Unset /\ run_duration_sec' = Unset
    /\ counters' = Unset /\ classes' = Unset
    /\ pass_rate' = Unset /\ all_passed' = Unset
    /\ slowest' = Unset /\ fastest' = Unset /\ avg_dur' = Unset
    /\ html_doc' = Unset
    /\ UNCHANGED <<doc, out_file, paths>>

NextTwice ==
    \/ Next
    \/ RunAgain

\* The script from its first statement.
NextPaths ==
    \/ SetPaths
    \/ Next



(***************************************************************************)
(* Input documents.                                                        *)
(***************************************************************************)
E(n, o, d, s) == [testName |-> n, outcome |-> o, duration |-> d, stdout |-> s]
Doc(w, t, c, rs) == [wellformed |-> w, Times |-> t, Counters |-> c, results |-> rs]
Times(s, f) == Some([start |-> s, finish |-> f])
Seqs(S, n) == UNION { [1..k -> S] : k \in 0..n }
Opt(S) == {Absent} \cup { Some(x) : x \in S }

RECURSIVE NatStr(_)
NatStr(n) == IF n < 10 THEN <<Digits[n + 1]>>
             ELSE NatStr(n \div 10) \o <<Digits[(n % 10) + 1]>>
IntStr(n) == IF n < 0 THEN <<"-">> \o NatStr(0 - n) ELSE NatStr(n)

\* Timestamps: 10:30:00 and 10:30:05 of the same day at +02:00, one without
\* a fraction (which strptime rejects).
T0 == <<"2024-01-15T10:30:00", ".", "1", "2", "3", "4", "5", "6", "7",
        "+", "0", "2", ":", "0", "0">>
T5 == <<"2024-01-15T10:30:05", ".", "1", "2", "3", "4", "5", "6", "7",
        "+", "0", "2", ":", "0", "0">>
TNoFraction == <<"2024-01-15T10:30:05", "+", "0", "2", "0", "0">>
GoodTimes == Times(Some(T0), Some(T5))

\* Outcome strings
Passed == <<"Passed">>
Failed == <<"Failed">>
NotExecuted == <<"NotExecuted">>
OddOutcome == <<"a", "<", "b">>

\* Duration strings
D_1s == <<"0", "0", ":", "0", "0", ":", "0", "1", ".", "5", "0", "0", "0", "0", "0", "0">>
D_65s == <<"0", ":", "0", "1", ":", "0", "5">>
D_3725s == <<"1", ":", "0", "2", ":", "0", "5", ".", "0", "0">>
D_SignedSeconds == <<"0", ":", "0", "0", ":", "-", "5">>
D_SignedHours == <<"-", "1", ":", "0", "0", ":", "0", "0">>
D_FourFields == <<"0", ":", "0", "1", ":", "0", "2", ":", "0", "3">>
D_TwoFields == <<"0", "1", ":", "0", "2">>
D_NonNumeric == <<"0", ":", "0", ":", "x">>
D_Inf == <<"0", ":", "0", ":", "inf">>

(***************************************************************************)
(* The text of a formatted duration: the f-strings of fmt_dur,             *)
(* f"{h}h {m:02d}m {s:05.2f}s", f"{m}m {s:05.2f}s" and f"{seconds:.2f}s".  *)
(***************************************************************************)
\* {m:02d}
TwoDigits(n) == IF 0 <= n /\ n < 10 THEN <<"0">> \o NatStr(n) ELSE IntStr(n)
\* {x:.2f}
TwoDecimals(x) ==
    CASE x.k = "nan" -> <<"nan">>
      [] x.k = "+inf" -> <<"inf">>
      [] x.k = "-inf" -> <<"-", "inf">>
      [] OTHER ->
           LET mag == IF x.cs < 0 THEN 0 - x.cs ELSE x.cs
           IN  (IF x.cs < 0 THEN <<"-">> ELSE <<>>)
               \o NatStr(mag \div 100) \o <<".">>
               \o <<Digits[((mag \div 10) % 10) + 1], Digits[(mag % 10) + 1]>>
\* {s:05.2f}: padded with zeros to five characters
FiveWide(x) ==
    IF x.k = "fin" /\ 0 <= x.cs /\ x.cs < 1000 THEN <<"0">> \o TwoDecimals(x)
    ELSE TwoDecimals(x)
DurationText(d) ==
    CASE d.form = "h m s" ->
           IntStr(d.h) \o <<"h", " ">> \o TwoDigits(d.m) \o <<"m", " ">>
           \o FiveWide(d.s) \o <<"s">>
      [] d.form = "m s" -> IntStr(d.m) \o <<"m", " ">> \o FiveWide(d.s) \o <<"s">>
      [] OTHER -> TwoDecimals(d.s) \o <<"s">>

(***************************************************************************)
(* The texts of the summary bar: f"{passed}/{total_tests}" and             *)
(* f"{pass_rate:.0f}%" (the fraction rounded to the nearest integer, a tie *)
(* to the even one; the sign is kept, also before a 0).                    *)
(***************************************************************************)
PassedOfTotalText(tests_passed) ==
    IntStr(tests_passed[1]) \o <<"/">> \o IntStr(tests_passed[2])

Abs(n) == IF n < 0 THEN 0 - n ELSE n

\* Mutant of RoundedMagnitude: the fraction is cut off, not rounded.
RoundedMagnitude_Floor(r) == Abs(r.num) \div Abs(r.den)

RoundedMagnitude(r) ==
    LET n == Abs(r.num)
        d == Abs(r.den)
        q == n \div d
        twice == 2 * (n % d)
    IN  IF twice > d THEN q + 1
        ELSE IF twice = d THEN q + (q % 2)
        ELSE q

PercentText(r) ==
    (IF (r.num < 0 /\ r.den > 0) \/ (r.num > 0 /\ r.den < 0) THEN <<"-">> ELSE <<>>)
    \o NatStr(RoundedMagnitude(r)) \o <<"%">>

\* Counters that agree with the result entries.
CountOutcome(rs, o) == Cardinality({ i \in 1..Len(rs) : rs[i].outcome = Some(o) })
ConsistentCounters(rs) ==
    Some([total |-> Some(IntStr(Len(rs))),
          passed |-> Some(IntStr(CountOutcome(rs, Passed))),
          failed |-> Some(IntStr(CountOutcome(rs, Failed))),
          error |-> Some(Zero),
          notExecuted |-> Some(IntStr(Len(rs) - CountOutcome(rs, Passed)
                                             - CountOutcome(rs, Failed)))])

(***************************************************************************)
(* Documents whose entries differ in their qualified names: two classes of *)
(* CLASS_ORDER (the later one of the list first), two classes that are not *)
(* in it, a name without '.', and no name at all.                          *)
(***************************************************************************)
MaxResults == 3
TestNames ==
    { Q("CompanyTests") \o <<".", "b">>,
      Q("AuthenticationTests") \o <<".", "a">>,
      Q("AuthenticationTests") \o <<".", "b">>,
      <<"Zeta", ".", "a">>,
      <<"Other", ".", "Sub", ".", "b">>,
      <<"a">> }
NameEntries == { E(n, Some(Passed), Some(D_1s), Absent) : n \in Opt(TestNames) }
DocsNames ==
    { Doc(TRUE, GoodTimes, ConsistentCounters(rs), rs) :
        rs \in Seqs(NameEntries, MaxResults) }

(***************************************************************************)
(* Documents whose counters range over absent, every integer of            *)
(* -1..MaxCount and a value that is no integer.                            *)
(***************************************************************************)
MaxCount == 2
CounterStrings == Opt({ IntStr(i) : i \in (0 - 1)..MaxCount } \cup {<<"x">>})
TwoResults ==
    << E(Some(Q("CompanyTests") \o <<".", "b">>), Some(Passed), Some(D_1s), Absent),
       E(Some(<<"Zeta", ".", "a">>), Some(NotExecuted), Some(D_65s), Absent) >>
DocsCounters ==
    { Doc(TRUE, GoodTimes, c, TwoResults) : c \in Opt([CounterAttrs -> CounterStrings]) }

(***************************************************************************)
(* Documents whose entries differ in their duration strings, with the run  *)
(* finishing after, at, or before its start.                               *)
(***************************************************************************)
MaxDurations == 2
DurationStrings ==
    { D_1s, D_65s, D_3725s, D_SignedSeconds, D_SignedHours, D_FourFields,
      D_TwoFields, D_NonNumeric, D_Inf }
DurationEntries ==
    { E(Some(<<"Zeta", ".", "a">>), Some(Passed), d, Absent) : d \in Opt(DurationStrings) }
DocsDurations ==
    { Doc(TRUE, t, ConsistentCounters(rs), rs) :
        t \in {GoodTimes, Times(Some(T5), Some(T5)), Times(Some(T5), Some(T0))},
        rs \in Seqs(DurationEntries, MaxDurations) }

(***************************************************************************)
(* Documents whose entries differ in the text they carry: names, outcome   *)
(* strings and captured output, with and without markup characters.        *)
(***************************************************************************)
MaxTexts == 2
MarkupName == <<"x", "<", "y", ".", "<", "script", ">", "&", "'">>
DescribedName == Q("CleanupTests") \o <<".", "ManualCleanup_DryRun">>
OutcomeStrings == {Passed, Failed, NotExecuted, OddOutcome, <<>>}
OutputTexts == {<<>>, <<" ", "\n">>, <<" ", "a", "&", "\"", "b", "\n">>}
TextEntries ==
    { E(Some(n), o, Some(D_1s), Absent) :
        n \in {MarkupName, DescribedName}, o \in Opt(OutcomeStrings) }
    \cup { E(Some(MarkupName), Some(Passed), Some(D_65s), s) : s \in Opt(OutputTexts) }
DocsTexts ==
    { Doc(TRUE, GoodTimes, ConsistentCounters(rs), rs) :
        rs \in Seqs(TextEntries, MaxTexts) }

(***************************************************************************)
(* Documents whose entries have or lack each optional part: a class with   *)
(* and without an entry in CLASS_DESCRIPTIONS, a method with and without   *)
(* an entry in TEST_DESCRIPTIONS (one of them a name without '.'), and a   *)
(* captured output that is absent, empty, blank or a text.                 *)
(***************************************************************************)
MaxOptional == 2
OptionalNames ==
    { Q("AuthenticationTests") \o <<".", "Login_WithValidCredentials_ReturnsAuthenticationTokens">>,
      Q("AuthenticationTests") \o <<".", "b">>,
      <<"Zeta", ".", "a">>,
      <<"ManualCleanup_DryRun">> }
OptionalEntries ==
    { E(Some(n), Some(Passed), Some(D_1s), s) :
        n \in OptionalNames, s \in Opt(OutputTexts) }
DocsOptional ==
    { Doc(TRUE, GoodTimes, ConsistentCounters(rs), rs) :
        rs \in Seqs(OptionalEntries, MaxOptional) }

(***************************************************************************)
(* Documents of one entry whose name is absent or any text of up to        *)
(* MaxPieces pieces, each piece a '.', a method name with a description or *)
(* another word: names without a '.', with several, with '.' at either end *)
(* or next to each other, and the empty name.                              *)
(***************************************************************************)
MaxPieces == 3
Pieces == {".", "a", "ManualCleanup_DryRun"}
DottedNames == Seqs(Pieces, MaxPieces)
DocsDotted ==
    { Doc(TRUE, GoodTimes, ConsistentCounters(rs), rs) :
        rs \in { <<E(n, Some(Passed), Some(D_1s), Absent)>> : n \in Opt(DottedNames) } }

(***************************************************************************)
(* Command lines: the script's name followed by up to MaxArgs positional   *)
(* arguments.                                                              *)
(***************************************************************************)
MaxArgs == 3
Args == {"a.trx", "b.html", "c"}
Argvs == { <<"generate_report.py">> \o a : a \in Seqs(Args, MaxArgs) }

(***************************************************************************)
(* Documents that fail at each statement that can raise, and the output    *)
(* path in each of its states.                                             *)
(***************************************************************************)
MaxRunResults == 2
RunEntries ==
    { E(Some(<<"Zeta", ".", "a">>), Some(Passed), d, Absent) :
        d \in {Some(D_1s), Some(D_TwoFields), Some(D_Inf)} }
GoodCounters == ConsistentCounters(<<>>)
DocsRun ==
    { Doc(w, t, c, rs) :
        w \in BOOLEAN,
        t \in {GoodTimes, Absent, Times(Some(T0), Absent),
               Times(Some(TNoFraction), Some(T5))},
        c \in {GoodCounters, Absent,
               Some([TheValue(GoodCounters) EXCEPT !.total = Some(<<"x">>)])},
        rs \in Seqs(RunEntries, MaxRunResults) }

(***************************************************************************)
(* Documents whose entries have durations on both sides of the minute and  *)
(* of the hour: 0, 45.5, 59.99, 60, 125.3, 3599.99, 3600, 3725 and 7325.25 *)
(* seconds.                                                                *)
(***************************************************************************)
MaxFormatted == 2
D_0s == <<"0", "0", ":", "0", "0", ":", "0", "0">>
D_45s == <<"0", "0", ":", "0", "0", ":", "4", "5", ".", "5", "0", "0", "0", "0", "0", "0">>
D_59s == <<"0", "0", ":", "0", "0", ":", "5", "9", ".", "9", "9">>
D_60s == <<"0", "0", ":", "0", "1", ":", "0", "0">>
D_125s == <<"0", "0", ":", "0", "2", ":", "0", "5", ".", "3", "0", "0", "0", "0", "0", "0">>
D_3599s == <<"0", "0", ":", "5", "9", ":", "5", "9", ".", "9", "9">>
D_3600s == <<"0", "1", ":", "0", "0", ":", "0", "0">>
D_7325s == <<"0", "2", ":", "0", "2", ":", "0", "5", ".", "2", "5">>
FormattedDurations ==
    { D_0s, D_45s, D_59s, D_60s, D_125s, D_3599s, D_3600s, D_3725s, D_7325s }
FormattedEntries ==
    { E(Some(<<"Zeta", ".", "a">>), Some(Passed), Some(d), Absent) :
        d \in FormattedDurations }
DocsFormatted ==
    { Doc(TRUE, GoodTimes, ConsistentCounters(rs), rs) :
        rs \in Seqs(FormattedEntries, MaxFormatted) }

(***************************************************************************)
(* Documents of up to MaxScenario entries, each Passed, Failed or          *)
(* NotExecuted, with counters that agree with the entries.                 *)
(***************************************************************************)
MaxScenario == 5
ScenarioEntries ==
    { E(Some(<<"Zeta", ".", "a">>), Some(o), Some(D_1s), Absent) :
        o \in {Passed, Failed, NotExecuted} }
DocsScenario ==
    { Doc(TRUE, GoodTimes, ConsistentCounters(rs), rs) :
        rs \in Seqs(ScenarioEntries, MaxScenario) }

(***************************************************************************)
(* Documents whose entries are in two classes: Passed in 1.5 or in 65      *)
(* seconds, Failed in 1.5 seconds, or without an outcome in 65 seconds.    *)
(***************************************************************************)
MaxCategory == 3
CategoryEntries ==
    { E(Some(n), od[1], Some(od[2]), Absent) :
        n \in {<<"Zeta", ".", "a">>, <<"Other", ".", "Sub", ".", "b">>},
        od \in {<<Some(Passed), D_1s>>, <<Some(Passed), D_65s>>,
                <<Some(Failed), D_1s>>, <<Absent, D_65s>>} }
DocsCategory ==
    { Doc(TRUE, GoodTimes, ConsistentCounters(rs), rs) :
        rs \in Seqs(CategoryEntries, MaxCategory) }

(***************************************************************************)
(* Documents whose entries are in one class and differ in their method     *)
(* names: one a prefix of another, upper and lower case, and repeated.     *)
(***************************************************************************)
MaxOrdered == 3
MethodNames == { <<"a">>, <<"b">>, <<"a", "b">>, <<"b", "a">>, <<"B">> }
OrderedEntries ==
    { E(Some(<<"Zeta", ".">> \o n), Some(Passed), Some(D_1s), Absent) : n \in MethodNames }
DocsOrdered ==
    { Doc(TRUE, GoodTimes, ConsistentCounters(rs), rs) :
        rs \in Seqs(OrderedEntries, MaxOrdered) }

(***************************************************************************)
(* Documents whose entries tie or differ in their durations, one of the    *)
(* durations being the "nan" that float() accepts.                         *)
(***************************************************************************)
MaxExtremes == 3
D_NaN == <<"0", ":", "0", ":", "nan">>
ExtremeEntries ==
    { E(Some(<<"Zeta", ".", "a">>), Some(Passed), Some(d), Absent) :
        d \in {D_1s, D_65s, D_NaN} }
DocsExtremes ==
    { Doc(TRUE, GoodTimes, ConsistentCounters(rs), rs) :
        rs \in Seqs(ExtremeEntries, MaxExtremes) }

(***************************************************************************)
(* Documents of no, one or two entries whose total counter is absent, 0,   *)
(* negative or positive, whether or not it agrees with the entries.        *)
(***************************************************************************)
MaxDivided == 2
DividedEntries ==
    { E(Some(<<"Zeta", ".", "a">>), Some(Passed), Some(d), Absent) : d \in {D_1s, D_65s} }
DividedCounters ==
    { Some([total |-> t, passed |-> Some(IntStr(p)), failed |-> Absent,
            error |-> Absent, notExecuted |-> Absent]) :
        t \in Opt({ IntStr(i) : i \in (0 - 1)..MaxDivided }), p \in 0..1 }
DocsDivided ==
    { Doc(TRUE, GoodTimes, c, rs) :
        c \in DividedCounters, rs \in Seqs(DividedEntries, MaxDivided) }

(***************************************************************************)
(* Documents with an element or an attribute missing: the timing block or  *)
(* one of its attributes, the counters block or some of its attributes,    *)
(* the outcome or the duration of an entry; and documents that are not     *)
(* well-formed.                                                            *)
(***************************************************************************)
MaxAbsent == 2
One == <<"1">>
AllCounters == [a \in CounterAttrs |-> Some(One)]
AbsentCounters ==
    {Absent, Some(AllCounters), Some([a \in CounterAttrs |-> Absent])}
    \cup { Some([AllCounters EXCEPT ![a] = Absent]) : a \in CounterAttrs }
AbsentTimes ==
    {GoodTimes, Absent, Times(Absent, Some(T5)), Times(Some(T0), Absent)}
AbsentEntries ==
    { E(Some(<<"Zeta", ".", "a">>), o, d, Absent) :
        o \in Opt({Passed}), d \in Opt({D_1s}) }
DocsAbsent ==
    { Doc(w, t, c, rs) :
        w \in BOOLEAN, t \in AbsentTimes, c \in AbsentCounters,
        rs \in Seqs(AbsentEntries, MaxAbsent) }

(***************************************************************************)
(* Documents whose start and finish times differ in their spelling: the    *)
(* time of day, the fraction (three, six, seven and eight digits) and the  *)
(* offset (east and west of UTC, with and without the colon).              *)
(***************************************************************************)
Stamp(dt, frac, off) == <<dt, ".">> \o frac \o off
Fractions ==
    { <<"1", "2", "3">>,
      <<"1", "2", "3", "4", "5", "6">>,
      <<"1", "2", "3", "4", "5", "6", "7">>,
      <<"1", "2", "3", "4", "5", "6", "8", "9">>,
      <<"1", "2", "3", "4", "5", "7">> }
Offsets ==
    { <<"+", "0", "2", ":", "0", "0">>, <<"+", "0", "2", "0", "0">>,
      <<"-", "0", "5", ":", "3", "0">>, <<"-", "0", "5", "3", "0">> }
Stamps ==
    { Stamp(dt, f, o) : dt \in {"2024-01-15T10:30:00", "2024-01-15T12:30:00"},
                        f \in Fractions, o \in Offsets }
OneResult == << E(Some(<<"Zeta", ".", "a">>), Some(Passed), Some(D_1s), Absent) >>
DocsTimes ==
    { Doc(TRUE, Times(Some(s), Some(f)), ConsistentCounters(OneResult), OneResult) :
        s \in Stamps, f \in Stamps }

(***************************************************************************)
(* The state before the first statement, and the specifications.           *)
(***************************************************************************)
\* No module-level name is bound and nothing has been done to the file.
Unstarted ==
    /\ earlier = Absent
    /\ error = Absent
    /\ fh = "none"
    /\ printed = FALSE
    /\ tests = <<>>
    /\ run_start = Unset /\ run_finish = Unset /\ run_duration_sec = Unset
    /\ counters = Unset /\ classes = Unset
    /\ pass_rate = Unset /\ all_passed = Unset
    /\ slowest = Unset /\ fastest = Unset /\ avg_dur = Unset
    /\ html_doc = Unset

\* The script started without arguments, its paths set, before ET.parse.
Start(docs, opens, files) ==
    /\ doc \in docs
    /\ can_open \in opens
    /\ out_file \in files
    /\ argv = <<"generate_report.py">>
    /\ TRX_PATH = DefaultTrxPath
    /\ HTML_PATH = DefaultHtmlPath
    /\ pc = "parse"
    /\ Unstarted

InitNames == Start(DocsNames, {TRUE}, {Absent})
InitCounters == Start(DocsCounters, {TRUE}, {Absent})
InitDurations == Start(DocsDurations, {TRUE}, {Absent})
InitTexts == Start(DocsTexts, {TRUE}, {Absent})
InitRun == Start(DocsRun, BOOLEAN, {Absent, Some(OldContent)})
InitTimes == Start(DocsTimes, {TRUE}, {Absent})
InitAbsent == Start(DocsAbsent, {TRUE}, {Absent})
InitDivided == Start(DocsDivided, {TRUE}, {Absent})
InitExtremes == Start(DocsExtremes, {TRUE}, {Absent})

InitOrdered == Start(DocsOrdered, {TRUE}, {Absent})

InitScenario == Start(DocsScenario, {TRUE}, {Absent})
InitCategory == Start(DocsCategory, {TRUE}, {Absent})
InitOptional == Start(DocsOptional, {TRUE}, {Absent})
InitDotted == Start(DocsDotted, {TRUE}, {Absent})
\* The script before its first statement, started with any command line,
\* the document at the input path being one of a single Passed entry.
InitPaths ==
    /\ doc = Doc(TRUE, GoodTimes, ConsistentCounters(OneResult), OneResult)
    /\ can_open = TRUE
    /\ out_file = Absent
    /\ argv \in Argvs
    /\ TRX_PATH = Unset /\ HTML_PATH = Unset
    /\ pc = "paths"
    /\ Unstarted

InitFormatted == Start(DocsFormatted, {TRUE}, {Absent})



SpecNames == InitNames /\ [][Next]_vars
SpecCounters == InitCounters /\ [][Next]_vars
SpecDurations == InitDurations /\ [][Next]_vars
SpecTexts == InitTexts /\ [][Next]_vars
SpecRun == InitRun /\ [][Next]_vars
SpecTwice == InitRun /\ [][NextTwice]_vars
SpecTimes == InitTimes /\ [][Next]_vars
SpecAbsent == InitAbsent /\ [][Next]_vars
SpecDivided == InitDivided /\ [][Next]_vars
SpecExtremes == InitExtremes /\ [][Next]_vars

SpecOrdered == InitOrdered /\ [][Next]_vars

SpecScenario == InitScenario /\ [][Next]_vars
SpecCategory == InitCategory /\ [][Next]_vars
SpecOptional == InitOptional /\ [][Next]_vars
SpecDotted == InitDotted /\ [][Next]_vars
SpecPaths == InitPaths /\ [][NextPaths]_vars

SpecFormatted == InitFormatted /\ [][Next]_vars




(***************************************************************************)
(* Properties                                                              *)
(***************************************************************************)
Sections == html_doc.sections
\* The places <<k, i>> of the rows of the document: row i of section k.
RowPlaces ==
    { p \in (1..Len(Sections)) \X (1..Len(tests)) : p[2] <= Len(Sections[p[1]].rows) }
RowAt(p) == Sections[p[1]].rows[p[2]]
\* The places <<k, i>> of the outcomes in the category lists.
ListPlaces ==
    { p \in (1..Len(classes)) \X (1..Len(tests)) : p[2] <= Len(classes[p[1]].tests) }
ListedAt(p) == classes[p[1]].tests[p[2]]
IndexIn(s, x) == CHOOSE i \in 1..Len(s) : s[i] = x
Statements ==
    <<"paths", "parse", "times", "counters", "results", "sort", "stats", "render",
      "open", "write", "print", "done">>
\* The statement the run is at, or stopped at.
Position == IndexIn(Statements, IF pc = "failed" THEN TheValue(error) ELSE pc)
Completed(statement) == Position > IndexIn(Statements, statement)
\* html_doc has been built; classes has been built.
Rendered == Completed("render")
Grouped == Completed("results")
EntryName(e) == get(doc.results[e].testName, <<>>)

(***************************************************************************)
(* C1: the number of rendered test rows equals the number of result        *)
(* entries of the input, and every entry is rendered by exactly one row.   *)
(***************************************************************************)
C1_EveryEntryRenderedOnce ==
    Rendered =>
        /\ Cardinality(RowPlaces) = Len(doc.results)
        /\ \A e \in 1..Len(doc.results) :
              Cardinality({ p \in RowPlaces : RowAt(p).of = e }) = 1

\* Three entries in two sections, one of which has two rows.
C1_Witness ==
    /\ Rendered
    /\ Len(doc.results) = 3
    /\ Len(Sections) = 2
    /\ \E k \in 1..2 : Len(Sections[k].rows) = 2

(***************************************************************************)
(* C2: the categories of CLASS_ORDER are emitted in CLASS_ORDER's relative *)
(* order, every other category after all of those, and the other          *)
(* categories in the order in which the input first shows them.            *)
(***************************************************************************)
Preferred(c) == InSeq(c, CLASS_ORDER)
FirstSeen(c) ==
    CHOOSE e \in 1..Len(tests) :
        tests[e].class_name = c /\ \A j \in 1..(e - 1) : tests[j].class_name # c

C2_CategoryOrder ==
    Rendered =>
        /\ Len(Sections) = Len(classes)
        /\ { classes[k].name : k \in 1..Len(classes) }
             = { tests[e].class_name : e \in 1..Len(tests) }
        /\ \A k \in 1..Len(classes) :
              /\ Sections[k].index = k
              /\ Sections[k].short = html_escape(short_class(classes[k].name))
        /\ \A i, j \in 1..Len(classes) :
              i < j =>
                 LET a == classes[i].name
                     b == classes[j].name
                 IN  /\ a # b
                     /\ Preferred(b) => Preferred(a)
                     /\ Preferred(a) /\ Preferred(b)
                          => IndexIn(CLASS_ORDER, a) < IndexIn(CLASS_ORDER, b)
                     /\ ~Preferred(a) /\ ~Preferred(b)
                          => FirstSeen(a) < FirstSeen(b)

\* The input shows a category outside CLASS_ORDER first, then CompanyTests,
\* then AuthenticationTests; the output has them in the opposite order.
C2_Witness ==
    /\ Rendered
    /\ Len(tests) = 3
    /\ ~Preferred(tests[1].class_name)
    /\ tests[2].class_name = Q("CompanyTests")
    /\ tests[3].class_name = Q("AuthenticationTests")
    /\ classes[1].name = Q("AuthenticationTests")
    /\ classes[3].name = tests[1].class_name

(***************************************************************************)
(* C3: after grouping and after reordering, every parsed outcome is in the *)
(* list of exactly one category: the part of its qualified name before the *)
(* last '.', its short name being the part after it; a name without '.'    *)
(* has the empty category and itself as short name.                        *)
(***************************************************************************)
SplitsAtLastDot(name, category, short) ==
    IF InSeq(".", name)
    THEN name = category \o <<".">> \o short /\ ~InSeq(".", short)
    ELSE category = <<>> /\ short = name

C3_PartitionByPrefix ==
    Grouped =>
        \A e \in 1..Len(tests) :
            /\ Cardinality({ p \in ListPlaces : ListedAt(p).id = e }) = 1
            /\ \A p \in ListPlaces :
                  ListedAt(p).id = e =>
                     /\ ListedAt(p) = tests[e]
                     /\ SplitsAtLastDot(EntryName(e), classes[p[1]].name,
                                        tests[e].method_name)

\* After the reordering: a name with two dots, a name with none.
C3_Witness ==
    /\ pc = "stats"
    /\ \E e \in 1..Len(tests) : tests[e].class_name = <<"Other", ".", "Sub">>
    /\ \E e \in 1..Len(tests) : tests[e].full_name = <<"a">> /\ tests[e].class_name = <<>>

(***************************************************************************)
(* C4 as stated: the pass rate is in [0,100], and is 0 exactly when the    *)
(* total counter is 0.                                                     *)
(***************************************************************************)
\* lo <= r <= hi for the fraction r = num/den
Between(r, lo, hi) ==
    IF r.den > 0 THEN lo * r.den <= r.num /\ r.num <= hi * r.den
                 ELSE lo * r.den >= r.num /\ r.num >= hi * r.den
IsZero(r) == r.num = 0

C4_Original ==
    Rendered =>
        /\ Between(html_doc.pass_rate, 0, 100)
        /\ IsZero(html_doc.pass_rate) <=> counters.total_tests = 0

(***************************************************************************)
(* C4 amended: the pass rate is 0 when the total counter is 0 and          *)
(* passed/total*100 otherwise; it is in [0,100] whenever 0 <= passed <=    *)
(* total, and it is 0 exactly when total is 0 or passed is 0.              *)
(***************************************************************************)
C4_PassRate ==
    Rendered =>
        LET r == html_doc.pass_rate
            p == counters.passed
            t == counters.total_tests
        IN  /\ r.den # 0
            /\ t = 0 => IsZero(r)
            /\ t # 0 => r.num * t = p * 100 * r.den
            /\ (0 <= p /\ p <= t) => Between(r, 0, 100)
            /\ IsZero(r) <=> (t = 0 \/ p = 0)

\* No test passed of two: the rate is 0 and the total is not.
C4_Witness ==
    /\ Rendered
    /\ counters.total_tests = 2
    /\ counters.passed = 0
    /\ IsZero(html_doc.pass_rate)

(***************************************************************************)
(* C5: every text taken from the input (category name, short test name,    *)
(* outcome string, captured output) is HTML-escaped wherever the document  *)
(* shows it, the slowest/fastest stat cards included: no markup character  *)
(* of it is in the document, and unescaping gives the text back.           *)
(***************************************************************************)
NoMarkup(s) == \A i \in 1..Len(s) : s[i] \notin SpecialChars
UnescapeChar(c) ==
    CASE c = "&amp;" -> "&"
      [] c = "&lt;" -> "<"
      [] c = "&gt;" -> ">"
      [] c = "&quot;" -> "\""
      [] c = "&#x27;" -> "'"
      [] OTHER -> c
Unescape(s) == [i \in 1..Len(s) |-> UnescapeChar(s[i])]
Shows(shown, text) == NoMarkup(shown) /\ Unescape(shown) = text
ShowsOpt(shown, text) ==
    IF text = <<>> THEN shown = Absent
    ELSE shown # Absent /\ Shows(TheValue(shown), text)
ShowsCard(card, t) ==
    IF t = Absent THEN card.sub = <<>>
    ELSE Shows(card.sub, TheValue(t).method_name)

C5_InputTextEscaped ==
    Rendered =>
        /\ \A k \in 1..Len(Sections) :
              Shows(Sections[k].short, short_class(classes[k].name))
        /\ \A p \in RowPlaces :
              LET row == RowAt(p)
                  t == tests[row.of]
              IN  /\ Shows(row.name, t.method_name)
                  /\ Shows(row.outcome, t.outcome)
                  /\ ShowsOpt(row.log, t.stdout)
                  /\ ShowsOpt(row.description, t.description)
        /\ ShowsCard(html_doc.slowest, slowest)
        /\ ShowsCard(html_doc.fastest, fastest)

HasMarkup(s) == \E i \in 1..Len(s) : s[i] \in SpecialChars
\* Markup characters in a category name, a test name, an outcome, a captured
\* output and in the names on both stat cards.
C5_Witness ==
    /\ Rendered
    /\ \E k \in 1..Len(classes) : HasMarkup(classes[k].name)
    /\ \E e \in 1..Len(tests) : HasMarkup(tests[e].method_name) /\ HasMarkup(tests[e].outcome)
    /\ \E e \in 1..Len(tests) : HasMarkup(tests[e].stdout)
    /\ HasMarkup(TheValue(slowest).method_name)
    /\ HasMarkup(TheValue(fastest).method_name)


(***************************************************************************)
(* C6 as stated: the summary panel has the success styling exactly when    *)
(* the failed, error and not-executed counters are all zero, and the       *)
(* failure styling otherwise.                                              *)
(***************************************************************************)
C6_Original ==
    Rendered =>
        /\ html_doc.summary_bg \in {C_GREEN_BG, C_RED_BG}
        /\ html_doc.summary_bg = C_GREEN_BG
             <=> /\ counters.failed = 0
                 /\ counters.errors = 0
                 /\ counters.skipped = 0

(***************************************************************************)
(* C7: no partial output.  A run that ends normally has written the whole  *)
(* document and closed the file; a run that ends with an error has not     *)
(* opened the file; the file at the output path changes only in the open   *)
(* and write statements, after the document has been built.                *)
(***************************************************************************)
C7_NoPartialOutput ==
    /\ [](pc = "done" => out_file = Some(Report(html_doc)) /\ fh = "closed")
    /\ [](pc = "failed" => fh = "none" /\ out_file \in {Absent, Some(OldContent)})
    /\ [](fh # "none" => Rendered)
    /\ [][out_file' # out_file => Rendered /\ pc \in {"open", "write"}]_vars

\* Rendering raised (a duration of inf) and the old file is as it was.
C7_Witness ==
    /\ pc = "failed"
    /\ error = Some("render")
    /\ out_file = Some(OldContent)

(***************************************************************************)
(* C8 as stated: every status is one of Passed, Failed, Error,             *)
(* NotExecuted, Unknown; an absent or unrecognized outcome string gives    *)
(* Unknown, and the run does not fail.                                     *)
(***************************************************************************)
Unknown == <<"Unknown">>
Recognized == {Passed, Failed, <<"Error">>, NotExecuted}

C9_Original ==
    Completed("stats") =>
        /\ \A e \in 1..Len(tests) : FGe(tests[e].duration_sec, Fin(0))
        /\ \A k \in 1..Len(classes) : FGe(SumDurations(classes[k].tests), Fin(0))
        /\ FGe(run_duration_sec, Fin(0))

(***************************************************************************)
(* C10 as stated: a duration string that does not match H:MM:SS[.fraction] *)
(* ends the run with an error; one that matches yields                     *)
(* hours*3600 + minutes*60 + seconds.                                      *)
(***************************************************************************)
\* H:MM:SS[.fraction]: three fields of digits, two digits for the minutes
\* and for the seconds, the seconds with an optional fraction.
MatchesHMS(s) ==
    LET parts == split(s, ":")
    IN  /\ Len(parts) = 3
        /\ AllDigits(parts[1])
        /\ Len(parts[2]) = 2 /\ AllDigits(parts[2])
        /\ LET sec == split(parts[3], ".")
           IN  /\ Len(sec) \in {1, 2}
               /\ Len(sec[1]) = 2 /\ AllDigits(sec[1])
               /\ Len(sec) = 2 => AllDigits(sec[2])
HMSValue(s) ==
    LET parts == split(s, ":")
        sec == split(parts[3], ".")
    IN  Fin((DigitsValue(parts[1]) * 3600 + DigitsValue(parts[2]) * 60
             + DigitsValue(sec[1])) * 100
            + (IF Len(sec) = 2 THEN Hundredths(sec[2]) ELSE 0))
EntryDuration(e) == get(doc.results[e].duration, DefaultDuration)

C10_Original ==
    /\ \A e \in 1..Len(tests) :
          /\ MatchesHMS(EntryDuration(e))
          /\ tests[e].duration_sec = HMSValue(EntryDuration(e))
    /\ (pc = "failed" /\ error = Some("results"))
          => ~MatchesHMS(EntryDuration(Len(tests) + 1))

(***************************************************************************)
(* C11: two timestamps that differ only in the spelling of the offset      *)
(* (+HH:MM or +HHMM) and in fraction digits beyond the sixth parse, and    *)
(* parse to the same instant.                                              *)
(***************************************************************************)
StartString == TheValue(TheValue(doc.Times).start)
FinishString == TheValue(TheValue(doc.Times).finish)
\* The parts of a timestamp <<date-time, ".", digits, sign, digits and colon>>
SignAt(s) == CHOOSE i \in 3..Len(s) : s[i] \in {"+", "-"}
FractionOf(s) == SubSeq(s, 3, SignAt(s) - 1)
OffsetOf(s) == SubSeq(s, SignAt(s), Len(s))
WithoutColon(o) == IF Len(o) = 6 THEN SubSeq(o, 1, 3) \o SubSeq(o, 5, 6) ELSE o
FirstSix(f) == IF Len(f) > 6 THEN SubSeq(f, 1, 6) ELSE f
SameButSpelling(a, b) ==
    /\ a[1] = b[1]
    /\ FirstSix(FractionOf(a)) = FirstSix(FractionOf(b))
    /\ WithoutColon(OffsetOf(a)) = WithoutColon(OffsetOf(b))

C11_SameInstant ==
    (Position > IndexIn(Statements, "parse") /\ doc.Times # Absent
       /\ TheValue(doc.Times).start # Absent /\ TheValue(doc.Times).finish # Absent
       /\ StartString \in Stamps /\ FinishString \in Stamps
       /\ SameButSpelling(StartString, FinishString))
    => /\ error # Some("times")
       /\ Completed("times") =>
             /\ run_start.instant = run_finish.instant
             /\ run_duration_sec = Fin(0)

\* "2024-01-15T10:30:00.1234567+02:00" and "2024-01-15T10:30:00.123456+0200"
\* have been parsed, to the same instant.
C11_Witness ==
    /\ Completed("times")
    /\ StartString = <<"2024-01-15T10:30:00", ".", "1", "2", "3", "4", "5", "6", "7",
                       "+", "0", "2", ":", "0", "0">>
    /\ FinishString = <<"2024-01-15T10:30:00", ".", "1", "2", "3", "4", "5", "6",
                        "+", "0", "2", "0", "0">>
    /\ run_start.instant = run_finish.instant
    /\ run_start.instant = [secs |-> 37800 - 7200, micros |-> 123456]

(***************************************************************************)
(* C12: fmt_dur renders a non-negative value x as seconds with two         *)
(* decimals below a minute, as minutes and seconds below an hour and as    *)
(* hours, minutes and seconds from an hour on; the rendered parts add up   *)
(* to x; 45.5 gives "45.50s", 125.3 "2m 05.30s" and 3725 "1h 02m 05.00s".  *)
(***************************************************************************)
Minute == Fin(60 * 100)
Hour == Fin(3600 * 100)
NonNegative(x) == x.k = "fin" /\ x.cs >= 0
\* The places where the document shows a formatted duration, as pairs of
\* the value and the formatted record: the rows, the category totals and
\* the stat cards.
FormattedPlaces ==
    { <<tests[RowAt(p).of].duration_sec, RowAt(p).duration>> : p \in RowPlaces }
    \cup { <<SumDurations(classes[k].tests), Sections[k].total_d>> :
             k \in 1..Len(Sections) }
    \cup { <<TheValue(slowest).duration_sec, c>> : c \in html_doc.slowest.value }
    \cup { <<TheValue(fastest).duration_sec, c>> : c \in html_doc.fastest.value }
    \cup { <<avg_dur, html_doc.avg_duration.value>> }
FormOf(x) ==
    IF FLess(x, Minute) THEN "s" ELSE IF FLess(x, Hour) THEN "m s" ELSE "h m s"

EntriesWith(o) == { e \in 1..Len(doc.results) : doc.results[e].outcome = Some(o) }
CountersAgree ==
    /\ counters.total_tests = Len(doc.results)
    /\ counters.passed = Cardinality(EntriesWith(Passed))
    /\ counters.failed = Cardinality(EntriesWith(Failed))
FailedStyledRows == { p \in RowPlaces : RowAt(p).color = C_RED_BG }
\* The percentage shown, as a number.
PercentShown == DigitsValue(SubSeq(PercentText(html_doc.pass_rate), 1,
                                   Len(PercentText(html_doc.pass_rate)) - 1))

C13_Summary ==
    (Rendered /\ CountersAgree) =>
        /\ PassedOfTotalText(html_doc.tests_passed)
             = NatStr(Cardinality(EntriesWith(Passed))) \o <<"/">> \o NatStr(Len(doc.results))
        /\ Len(doc.results) > 0 =>
              \* | passed / total * 100 - shown | <= 1/2
              /\ 2 * (100 * counters.passed - PercentShown * counters.total_tests)
                    <= counters.total_tests
              /\ 2 * (PercentShown * counters.total_tests - 100 * counters.passed)
                    <= counters.total_tests
        /\ Len(doc.results) = 0 => PercentText(html_doc.pass_rate) = <<"0", "%">>
        /\ Cardinality(FailedStyledRows)
             = Len(doc.results) - Cardinality(EntriesWith(Passed))
        /\ (/\ Len(doc.results) = 5
            /\ Cardinality(EntriesWith(Passed)) = 4
            /\ Cardinality(EntriesWith(Failed)) = 1)
           => /\ PassedOfTotalText(html_doc.tests_passed) = <<"4", "/", "5">>
              /\ PercentText(html_doc.pass_rate) = <<"8", "0", "%">>
              /\ Cardinality(FailedStyledRows) = 1

\* The scenario: five entries, four Passed and one Failed, rendered, with
\* the row of the failed one styled as failed.
C13_Witness ==
    /\ Rendered
    /\ Len(doc.results) = 5
    /\ Cardinality(EntriesWith(Passed)) = 4
    /\ Cardinality(EntriesWith(Failed)) = 1
    /\ PercentText(html_doc.pass_rate) = <<"8", "0", "%">>
    /\ \E p \in FailedStyledRows : doc.results[RowAt(p).of].outcome = Some(Failed)

(***************************************************************************)
(* C14: within every category section the rows are in ascending            *)
(* lexicographic order of their short names, whatever the order of the     *)
(* entries in the input; rows with equal short names keep the order of     *)
(* their entries.                                                          *)
(***************************************************************************)
\* a is before b in the lexicographic order: a proper prefix of b, or less
\* at the first place where they differ.
RECURSIVE LexBefore(_, _)
LexBefore(a, b) ==
    IF b = <<>> THEN FALSE
    ELSE IF a = <<>> THEN TRUE
    ELSE IF Head(a) = Head(b) THEN LexBefore(Tail(a), Tail(b))
    ELSE Ord(Head(a)) < Ord(Head(b))
ShortNameOf(e) == tests[e].method_name

C14_RowsSortedByShortName ==
    Rendered =>
        \A p \in RowPlaces, q \in RowPlaces :
            (p[1] = q[1] /\ p[2] < q[2]) =>
                /\ ~LexBefore(ShortNameOf(RowAt(q).of), ShortNameOf(RowAt(p).of))
                /\ ShortNameOf(RowAt(p).of) = ShortNameOf(RowAt(q).of)
                      => RowAt(p).of < RowAt(q).of

\* The entries b, ab, b in this order are shown as ab, b (the first), b (the
\* third).
C14_Witness ==
    /\ Rendered
    /\ Len(doc.results) = 3
    /\ EntryName(1) = <<"Zeta", ".", "b">>
    /\ EntryName(2) = <<"Zeta", ".", "a", "b">>
    /\ EntryName(3) = <<"Zeta", ".", "b">>
    /\ RowAt(<<1, 1>>).of = 2 /\ RowAt(<<1, 2>>).of = 1 /\ RowAt(<<1, 3>>).of = 3

(***************************************************************************)
(* C15 as stated: the slowest outcome is one with the maximum duration and *)
(* the fastest one with the minimum duration over all parsed outcomes, the *)
(* first in the input among those that tie; with no outcomes both are      *)
(* absent and the stat cards show a dash.                                  *)
(***************************************************************************)
\* Entry e has the greatest (least) duration of all, and is the first to.
FirstMaximum(e) ==
    /\ \A j \in 1..Len(tests) : FGe(tests[e].duration_sec, tests[j].duration_sec)
    /\ \A j \in 1..(e - 1) : tests[j].duration_sec # tests[e].duration_sec
FirstMinimum(e) ==
    /\ \A j \in 1..Len(tests) : FGe(tests[j].duration_sec, tests[e].duration_sec)
    /\ \A j \in 1..(e - 1) : tests[j].duration_sec # tests[e].duration_sec

C15_Original ==
    Completed("stats") =>
        IF tests = <<>>
        THEN /\ slowest = Absent /\ fastest = Absent
             /\ Rendered => /\ html_doc.slowest.value = Absent
                            /\ html_doc.fastest.value = Absent
        ELSE /\ slowest # Absent /\ fastest # Absent
             /\ FirstMaximum(TheValue(slowest).id)
             /\ FirstMinimum(TheValue(fastest).id)

(***************************************************************************)
(* C16: no division by zero occurs: no run ends with the error of one; the *)
(* pass rate is 0 when the total counter is 0; the average duration is the *)
(* mean of the outcomes' durations, and 0 when there are none; the         *)
(* summary's average per test is 0 when the total counter is 0.            *)
(***************************************************************************)
\* The durations of the documents of SpecDivided are finite, so that no
\* fmt_dur raises and a division by 0 is the only error of these statements.
DivisionFailed == pc = "failed" /\ error \in {Some("stats"), Some("render")}
ZeroSeconds == [form |-> "s", h |-> 0, m |-> 0, s |-> Fin(0)]

C16_NoDivisionByZero ==
    /\ ~DivisionFailed
    /\ Completed("stats") =>
          /\ pass_rate.den # 0
          /\ counters.total_tests = 0 => pass_rate.num = 0
          /\ tests = <<>> => avg_dur = Fin(0)
          /\ tests # <<>> =>
                \* avg_dur = sum / len, to the centisecond below
                /\ avg_dur.k = "fin"
                /\ avg_dur.cs * Len(tests) <= SumDurations(tests).cs
                /\ SumDurations(tests).cs < (avg_dur.cs + 1) * Len(tests)
    /\ Rendered =>
          /\ counters.total_tests = 0 => html_doc.avg_per_test = ZeroSeconds
          /\ tests = <<>> => html_doc.avg_duration.value = ZeroSeconds

\* A finished run over a document with a total counter of 0 and no entries.
C16_Witness ==
    /\ pc = "done"
    /\ counters.total_tests = 0
    /\ tests = <<>>
    /\ pass_rate.num = 0
    /\ avg_dur = Fin(0)
    /\ html_doc.avg_per_test = ZeroSeconds

(***************************************************************************)
(* C17: the parse stage ends the run with an error when the document is    *)
(* not well-formed or when the timing block, one of its start and finish   *)
(* attributes or the counters block is absent; an absent counter attribute *)
(* is read as 0 and an absent outcome or duration of an entry as Unknown   *)
(* or a duration of zero, and none of these ends the run.                  *)
(***************************************************************************)
TimesMissing ==
    \/ doc.Times = Absent
    \/ TheValue(doc.Times).start = Absent
    \/ TheValue(doc.Times).finish = Absent
CountersMissing == doc.Counters = Absent
ValueOf(name) ==
    CASE name = "total" -> counters.total_tests
      [] name = "passed" -> counters.passed
      [] name = "failed" -> counters.failed
      [] name = "error" -> counters.errors
      [] name = "notExecuted" -> counters.skipped

C17_ParseStage ==
    \* what is missing ends the run at the statement that reads it
    /\ ~doc.wellformed => (pc = "parse" \/ (pc = "failed" /\ error = Some("parse")))
    /\ (doc.wellformed /\ TimesMissing)
          => (pc \in {"parse", "times"} \/ (pc = "failed" /\ error = Some("times")))
    /\ (doc.wellformed /\ ~TimesMissing /\ CountersMissing)
          => (pc \in {"parse", "times", "counters"}
              \/ (pc = "failed" /\ error = Some("counters")))
    \* what is read with a default does not
    /\ (doc.wellformed /\ ~TimesMissing /\ ~CountersMissing) => pc # "failed"
    /\ Completed("counters") =>
          \A a \in CounterAttrs :
              TheValue(doc.Counters)[a] = Absent => ValueOf(a) = 0
    /\ \A e \in 1..Len(tests) :
          /\ doc.results[e].outcome = Absent => tests[e].outcome = <<"Unknown">>
          /\ doc.results[e].duration = Absent => tests[e].duration_sec = Fin(0)
    /\ Rendered =>
          \A p \in RowPlaces :
              /\ doc.results[RowAt(p).of].outcome = Absent
                    => RowAt(p).outcome = <<"Unknown">>
              /\ doc.results[RowAt(p).of].duration = Absent
                    => DurationText(RowAt(p).duration) = <<"0", ".", "0", "0", "s">>

\* A finished run over a document without the total counter and with an
\* entry that has neither an outcome nor a duration.
C17_Witness ==
    /\ pc = "done"
    /\ TheValue(doc.Counters).total = Absent
    /\ counters.total_tests = 0
    /\ \E e \in 1..Len(tests) :
          /\ doc.results[e].outcome = Absent /\ doc.results[e].duration = Absent
          /\ tests[e].outcome = <<"Unknown">> /\ tests[e].duration_sec = Fin(0)

(***************************************************************************)
(* C18: every run terminates.  Remaining, the number of statements from    *)
(* the one the run is at to the end plus the number of result entries not  *)
(* yet read, is a natural number that every step of the run makes smaller  *)
(* and that is 0 exactly when the run has ended: a run takes at most as    *)
(* many steps as Remaining is at its start.  The statements run in their   *)
(* order (parse, aggregate, render, write, print): each step stays at its  *)
(* statement, goes on to the next one, or ends the run with the error of   *)
(* the statement it was at.  The confirmation line is printed only after   *)
(* the document has been written and the file closed.  After an error      *)
(* nothing runs any more and the line is not printed; a finished run does  *)
(* nothing more either.                                                    *)
(***************************************************************************)
Terminated == pc \in {"done", "failed"}
NextStatement(a, b) ==
    /\ a # "failed" /\ b # "failed"
    /\ IndexIn(Statements, b) = IndexIn(Statements, a) + 1
Remaining ==
    IF Terminated THEN 0
    ELSE (Len(Statements) - IndexIn(Statements, pc)) + (Len(doc.results) - Len(tests))

C18_RunTerminates ==
    /\ [](Remaining \in Nat /\ (Remaining = 0 <=> Terminated))
    /\ [][Remaining' < Remaining]_vars
    /\ [][pc' # pc => \/ NextStatement(pc, pc')
                      \/ pc' = "failed" /\ error' = Some(pc) /\ ~printed']_vars
    /\ [][~Terminated]_vars
    /\ [](printed => fh = "closed" /\ out_file = Some(Report(html_doc)))
    /\ [](pc = "failed" => ~printed /\ error # Absent)
    /\ [](pc # "failed" => error = Absent)

\* A run that has printed the confirmation line after writing two rows.
C18_Witness ==
    /\ pc = "done"
    /\ printed
    /\ fh = "closed"
    /\ Len(tests) = 2
    /\ out_file = Some(Report(html_doc))


(***************************************************************************)
(* C19: two runs over the same document produce the same output document.  *)
(* When the second run has ended, and both runs finished, the file holds   *)
(* exactly what the first run left in it, whatever the file held before    *)
(* either run; and a run that stops for another reason than the output     *)
(* file (which is outside the document) stops at the statement at which    *)
(* the other run stopped.                                                  *)
(***************************************************************************)
First == TheValue(earlier)
SecondEnded == earlier # Absent /\ Terminated
Members(k) == { e \in 1..Len(tests) : tests[e].class_name = classes[k].name }
\* The sum of the durations of a set of entries, in hundredths of a second.
RECURSIVE Centiseconds(_)
Centiseconds(S) ==
    IF S = {} THEN 0
    ELSE LET e == CHOOSE x \in S : TRUE
         IN  tests[e].duration_sec.cs + Centiseconds(S \ {e})
C20_SectionSummary ==
    Rendered =>
        \A k \in 1..Len(Sections) :
            /\ Sections[k].passed_count =
                  Cardinality({ e \in Members(k) : doc.results[e].outcome = Some(Passed) })
            /\ Sections[k].count = Cardinality(Members(k))
            /\ Sections[k].total_d = fmt_dur(Fin(Centiseconds(Members(k)))).v
            /\ Sections[k].has_fail <=>
                  \E e \in Members(k) : doc.results[e].outcome # Some(Passed)

\* Two sections: one of two entries, one Passed and one without an outcome,
\* that take 66.5 seconds together; and one of a single Passed entry.
C20_Witness ==
    /\ Rendered
    /\ \E k, j \in 1..Len(Sections) :
          /\ Sections[k].count = 2 /\ Sections[k].passed_count = 1
          /\ Sections[k].has_fail
          /\ \E e \in Members(k) : doc.results[e].outcome = Absent
          /\ Sections[k].total_d = fmt_dur(Fin(6650)).v
          /\ Sections[j].count = 1 /\ Sections[j].passed_count = 1
          /\ ~Sections[j].has_fail


(***************************************************************************)
(* C21: an optional part is in the document exactly when its text is not   *)
(* empty.  A row has a description block exactly when the method name of   *)
(* its entry is a key of TEST_DESCRIPTIONS (the description is empty       *)
(* otherwise), and an execution-log block exactly when the entry has a     *)
(* captured output that is not blank; a section has a description block    *)
(* exactly when its class name is a key of CLASS_DESCRIPTIONS.             *)
(***************************************************************************)
InTable(table, key) == \E i \in 1..Len(table) : table[i][1] = key
Blank(s) == \A i \in 1..Len(s) : s[i] \in Whitespace
HasOutput(e) ==
    /\ doc.results[e].stdout # Absent
    /\ ~Blank(TheValue(doc.results[e].stdout))
C21_OptionalParts ==
    Rendered =>
        /\ \A p \in RowPlaces :
              LET row == RowAt(p)
                  t == tests[row.of]
              IN  /\ row.description # Absent <=> InTable(TEST_DESCRIPTIONS, t.method_name)
                  /\ row.description # Absent <=> t.description # <<>>
                  /\ row.log # Absent <=> HasOutput(row.of)
                  /\ row.log # Absent <=> t.stdout # <<>>
        /\ \A k \in 1..Len(Sections) :
              Sections[k].class_desc # Absent <=>
                  InTable(CLASS_DESCRIPTIONS, classes[k].name)

\* A described row with a log in a described section, and a row with
\* neither a description nor a log, its captured output being blank, in a
\* section without a description.
C21_Witness ==
    /\ Rendered
    /\ \E p, q \in RowPlaces :
          /\ Sections[p[1]].class_desc # Absent
          /\ RowAt(p).description # Absent /\ RowAt(p).log # Absent
          /\ Sections[q[1]].class_desc = Absent
          /\ RowAt(q).description = Absent /\ RowAt(q).log = Absent
          /\ doc.results[RowAt(q).of].stdout = Some(<<" ", "\n">>)


(***************************************************************************)
(* C22: for every number of positional arguments, the input path is the    *)
(* first argument when it is given and the default input path otherwise,   *)
(* and the output path is the second argument when it is given and the     *)
(* default output path otherwise.                                          *)
(***************************************************************************)
PathsSet == pc # "paths"
C22_Original ==
    PathsSet =>
        /\ TRX_PATH = IF Len(argv) >= 2 THEN argv[2] ELSE DefaultTrxPath
        /\ HTML_PATH = IF Len(argv) >= 3 THEN argv[3] ELSE DefaultHtmlPath


(***************************************************************************)
(* C23: once the result entries have been parsed, no later statement       *)
(* changes the list of outcomes or a field of an outcome, and once the     *)
(* outcomes have been grouped, no later statement changes the list of a    *)
(* category: reordering the categories moves the lists as they are, and    *)
(* the rows are sorted without the lists being touched.  Every outcome in  *)
(* a category's list is the parsed outcome of that id.                     *)
(***************************************************************************)
PastParsing == Completed("results")
SameLists(before, after) ==
    /\ Len(after) = Len(before)
    /\ \A k \in 1..Len(before) :
          /\ HasKey(after, before[k].name)
          /\ Item(after, before[k].name).tests = before[k].tests
C23_OutcomesImmutable ==
    /\ [][PastParsing => tests' = tests /\ SameLists(classes, classes')]_vars
    /\ [](PastParsing =>
             \A k \in 1..Len(classes) : \A i \in 1..Len(classes[k].tests) :
                 classes[k].tests[i] = tests[classes[k].tests[i].id])

\* The categories have been reordered (the first entry's category is not the
\* first section) and the first section shows its two outcomes in the other
\* order than its list has them.
C23_Witness ==
    /\ Rendered
    /\ Len(classes) = 2
    /\ Len(classes[1].tests) = 2
    /\ classes[1].tests[1].id # 1
    /\ Sections[1].rows[1].of = classes[1].tests[2].id
    /\ Sections[1].rows[2].of = classes[1].tests[1].id


(***************************************************************************)
(* C24: for every test name, the name the entry loop looks the description *)
(* up by is the method_name of the Test built from it, so every row shows  *)
(* the description that TEST_DESCRIPTIONS has for the name the row shows,  *)
(* or none when it has none.                                               *)
(***************************************************************************)
C24_SameShortName ==
    /\ \A e \in 1..Len(tests) :
          /\ LookupName(tests[e].full_name) = tests[e].method_name
          /\ tests[e].description = lookup(TEST_DESCRIPTIONS, tests[e].method_name)
    /\ Rendered =>
          \A p \in RowPlaces :
              ShowsOpt(RowAt(p).description,
                       lookup(TEST_DESCRIPTIONS, Unescape(RowAt(p).name)))

\* A name of three pieces with two '.', whose last piece has a description
\* that the row shows; its first piece is not the name looked up.
C24_Witness ==
    /\ Rendered
    /\ Len(tests) = 1
    /\ tests[1].full_name = <<".", ".", "ManualCleanup_DryRun">>
    /\ RowAt(<<1, 1>>).name = <<"ManualCleanup_DryRun">>
    /\ RowAt(<<1, 1>>).description # Absent


(***************************************************************************)
(* C25: the sections are numbered 1..n in the order of the document; the   *)
(* rows of section k are labelled k.1, ..., k.m in the order of the        *)
(* section, m being the number of entries of its category; and no two rows *)
(* of the document have the same label text.                               *)
(***************************************************************************)
\* f'{class_index}.{i}'
LabelText(label) == NatStr(label[1]) \o <<".">> \o NatStr(label[2])
C25_LabelsGapFree ==
    Rendered =>
        /\ \A k \in 1..Len(Sections) :
              /\ Sections[k].index = k
              /\ Len(Sections[k].rows) = Cardinality(Members(k))
        /\ \A p \in RowPlaces : RowAt(p).label = <<p[1], p[2]>>
        /\ \A p, q \in RowPlaces :
              LabelText(RowAt(p).label) = LabelText(RowAt(q).label) => p = q

\* Three entries of which the second and third are in the category shown
\* first: the rows 1.1, 1.2 and 2.1.
C25_Witness ==
    /\ Rendered
    /\ Len(Sections) = 2
    /\ Len(Sections[1].rows) = 2 /\ Len(Sections[2].rows) = 1
    /\ Sections[2].rows[1].of = 1
    /\ LabelText(Sections[1].rows[2].label) = <<"1", ".", "2">>
    /\ LabelText(Sections[2].rows[1].label) = <<"2", ".", "1">>

=============================================================================
